---- MODULE Spec2Model ----
(***************************************************************************)
(* Floor-plan dashboard views (isometric, network, 3D): the per-view       *)
(* persistent state bag, the container polling and (re-)initialization,    *)
(* the render loop with its label update, the zoom controls and the        *)
(* network view's wall assembly.                                           *)
(*                                                                         *)
(* Lengths are integers in micrometres (1 m = 1000000).  Zoom levels and   *)
(* frustum sizes are exact fractions <<n, d>> in lowest terms.  Pixel      *)
(* positions are integers; normalized device coordinates are in tenths.    *)
(***************************************************************************)
EXTENDS Integers, Sequences, FiniteSets, TLC

VARIABLES
  view,      \* the view this behaviour is about: "iso", "net" or "three"
  cfg,       \* FLOOR_PLAN_CONFIG (read-only)
  st,        \* the view's persistent state bag (isoState / networkState / threeState)
  comp,      \* the component instances' reactive state, by instance
  cont,      \* each instance's container element ($refs.*Container)
  dom,       \* canvas parents, label elements, event listeners
  heap,      \* every scene and renderer ever created, with its disposal state
  timers,    \* pending setTimeout callbacks (container polls)
  rafs,      \* pending requestAnimationFrame callbacks
  ids,       \* allocation counters
  budget,    \* remaining user events, layout changes and thrown exceptions
  initLog,   \* what the most recent full initialization did, in order (history)
  wheelRun,  \* per instance: wheel-down events in a row since zoom was 1.0 (history)
  script,    \* the run of the screenshot comparison script (scripts/compare-screenshots)
  colorCall  \* the latest call of the colour utilities: function, arguments, result

vars ==
  <<view, cfg, st, comp, cont, dom, heap, timers, rafs, ids, budget, initLog, wheelRun,
    script, colorCall>>

-----------------------------------------------------------------------------
(* Bounds of the model *)

MaxInst == 2
MaxPolls == 2
MaxFrames == 2
MaxEvents == 1
MaxZoomEvents == 11
MaxLayouts == 1
MaxFaults == 1
MaxDen == 1000000
MaxPanEvents == 4
MaxShots == 3
MaxToggles == 3

Inst == 1..MaxInst
Views == {"iso", "net", "three"}

\* The one element of a singleton set.  Results of steps are bound through
\* singleton sets so that every step is evaluated once.
Only(S) == CHOOSE x \in S : TRUE

-----------------------------------------------------------------------------
(* Exact fractions *)

Abs(a) == IF a < 0 THEN -a ELSE a

RECURSIVE Gcd(_, _)
Gcd(a, b) == IF b = 0 THEN a ELSE Only({Gcd(x, y) : x \in {b}, y \in {a % b}})

\* <<1, 0>> and <<-1, 0>> stand for +Infinity and -Infinity, <<0, 0>> for NaN
Q(n, d) ==
  Only({ IF g = 0 THEN <<0, 0>>
         ELSE IF d < 0 THEN <<(-n) \div g, (-d) \div g>> ELSE <<n \div g, d \div g>> :
           g \in {Gcd(Abs(n), Abs(d))} })

Sgn(a) == IF a < 0 THEN -1 ELSE 1
QMul(p, q) == Only({Q(a[1] * b[1], a[2] * b[2]) : a \in {p}, b \in {q}})
QDiv(p, q) ==
  Only({Q(a[1] * b[2] * Sgn(b[1]), a[2] * Abs(b[1])) : a \in {p}, b \in {q}})
QNeg(p) == <<-p[1], p[2]>>
QLt(p, q) == p[1] * q[2] < q[1] * p[2]
NaN == <<0, 0>>
\* Math.min / Math.max: NaN if either argument is NaN
\* p - q on finite numbers
QSub(p, q) == Q(p[1] * q[2] - q[1] * p[2], p[2] * q[2])

QMin(p, q) ==
  Only({IF a = NaN \/ b = NaN THEN NaN ELSE IF QLt(b, a) THEN b ELSE a : a \in {p}, b \in {q}})
QMax(p, q) ==
  Only({IF a = NaN \/ b = NaN THEN NaN ELSE IF QLt(a, b) THEN b ELSE a : a \in {p}, b \in {q}})

-----------------------------------------------------------------------------
(* Configuration: FLOOR_PLAN_CONFIG, lengths in micrometres *)

Room(id, x, z, width, depth) ==
  [id |-> id, x |-> x, z |-> z, width |-> width, depth |-> depth]

\* The device list of the network view: id, type, room and relative position
\* (in hundredths) of each device.
Device(id, type, room, x, z) == [id |-> id, type |-> type, room |-> room, x |-> x, z |-> z]

ZIGBEE_DEVICES ==
  << Device("coordinator", "coordinator", "living", 50, 50),
     Device("plug", "router", "study", 20, 80),
     Device("sensor", "end-device", "bedroom", 0, 100) >>

\* The static configuration the views read: the floor plan and, as devices, the
\* device list imported beside it
FLOOR_PLAN_CONFIG ==
  [ apartmentWidth |-> 9239000,
    apartmentDepth |-> 6665000,
    wallHeight |-> 2000000,
    rooms |-> << Room("study", 7285000, 1848500, 3908000, 3697000),
                 Room("living", 6864000, 5181000, 4750000, 2968000),
                 Room("bedroom", 2244500, 5476000, 4489000, 2378000),
                 Room("kitchen", 1665500, 2895700, 3331000, 2782700),
                 Room("bathroom", 1698500, 752200, 3397000, 1504300) >>,
    balconyNotch |-> [width |-> 1000000, depth |-> 1500000, hasRailing |-> TRUE],
    devices |-> ZIGBEE_DEVICES ]

Range(s) == {s[k] : k \in DOMAIN s}

find(rooms, id) == CHOOSE r \in Range(rooms) : r.id = id
has(rooms, id) == \E r \in Range(rooms) : r.id = id

Half(a) == a \div 2
Scale(a, num, den) == (a * num) \div den

-----------------------------------------------------------------------------
(* Meshes: a box of size (w, h, d) centred at (x, y, z) in scene coordinates *)

Box(name, w, h, d, x, y, z) ==
  [name |-> name, w |-> w, h |-> h, d |-> d, x |-> x, y |-> y, z |-> z]

-----------------------------------------------------------------------------
(* Network view: createRoom pushes a room's own walls to wallMeshes *)

netWallHeight == 800000
netWallThick == 80000
doorWidth == 420000
studyDoorZ == 2500000

netCreateRoom(c, config) ==
  LET centerX == Half(c.apartmentWidth)
      centerZ == Half(c.apartmentDepth)
      rx == config.x - centerX
      rz == config.z - centerZ
      halfW == Half(config.width)
      halfD == Half(config.depth)
      wallHeight == netWallHeight
      study == find(c.rooms, "study")
      studyFrontZ == study.z + Half(study.depth) - 500000
      \* Front wall (south)
      front ==
        IF config.id \notin {"study", "kitchen", "bedroom", "living"}
        THEN << Box("frontWall", config.width, wallHeight, netWallThick,
                    rx, Half(wallHeight), rz + halfD) >>
        ELSE << >>
      \* Left wall (west); the study's is split around a door at z = 2.5
      doorZ == studyDoorZ
      doorTop == doorZ - Half(doorWidth)
      doorBottom == doorZ + Half(doorWidth)
      seg1Depth == doorTop
      seg2Depth == studyFrontZ - doorBottom
      left ==
        IF config.id # "living" /\ config.id \notin {"bathroom", "kitchen", "bedroom"}
        THEN IF config.id = "study"
             THEN << Box("leftWall1", netWallThick, wallHeight, seg1Depth,
                         rx - halfW, Half(wallHeight), Half(seg1Depth) - centerZ),
                     Box("leftWall2", netWallThick, wallHeight, seg2Depth,
                         rx - halfW, Half(wallHeight),
                         Half(doorBottom + studyFrontZ) - centerZ) >>
             ELSE << Box("leftWall", netWallThick, wallHeight, config.depth,
                         rx - halfW, Half(wallHeight), rz) >>
        ELSE << >>
      \* Right wall (east); the bedroom's is the divider towards the living room
      wall15Z == study.z + Half(study.depth) - 500000
      bedroomFrontZ == config.z + Half(config.depth)
      extendedDepth == bedroomFrontZ - wall15Z
      bathroom == find(c.rooms, "bathroom")
      wall7X == bathroom.x + Half(bathroom.width) + 800000 - Half(c.apartmentWidth)
      right ==
        IF config.id \notin {"bathroom", "kitchen", "study", "living"}
        THEN IF config.id = "bedroom"
             THEN << Box("rightWall", netWallThick, wallHeight, extendedDepth,
                         wall7X, Half(wallHeight),
                         Half(wall15Z + bedroomFrontZ) - Half(c.apartmentDepth)) >>
             ELSE << Box("rightWall", netWallThick, wallHeight, config.depth,
                         rx + halfW, Half(wallHeight), rz) >>
        ELSE << >>
  IN  front \o left \o right

\* The room's floor: an L-shape for the living room with a notch, else a plane,
\* both positioned at the room's centre
netCreateRoomFloor(c, config) ==
  Box(IF config.id = "living" /\ c.balconyNotch.width > 0 THEN "floorL" ELSE "floor",
      config.width, 0, config.depth,
      config.x - Half(c.apartmentWidth), 10000, config.z - Half(c.apartmentDepth))

\* The group createRoom adds to the scene: its floor and its walls
netRoom(c, config) ==
  [floors |-> <<netCreateRoomFloor(c, config)>>, walls |-> netCreateRoom(c, config)]

RECURSIVE netRoomWalls(_, _)
netRoomWalls(c, k) ==
  IF k = 0 THEN << >>
  ELSE netRoomWalls(c, k - 1) \o netCreateRoom(c, c.rooms[k])

-----------------------------------------------------------------------------
(* Network view: the consolidated walls of buildFloorPlan, in push order *)

door4X == 3800000
door2X == 4800000
coatWallX == 4600000
mainDoorX == 4000000
mainDoorWidth == 420000
westNormalWidth == 700000
westSillHeight == 200000
westHeaderStart == 600000
w5CenterZ == 600000
w4CenterZ == 2300000
w3CenterZ == 4700000
wall10DoorWidth == 420000
bathDoorZ == 700000
kitchenDoorZ == 2500000
normalWidth == 700000
sillHeight == 200000
headerStart == 600000
w1CenterZ == 1500000
w2CenterZ == 4200000
frenchDoorWidth == 700000
frenchDoorHeight == 700000
railingHeight == 500000
railingThickness == 50000

netWall3Shifted(c) ==
  LET centerX == Half(c.apartmentWidth)
      centerZ == Half(c.apartmentDepth)
      study == find(c.rooms, "study")
      studyFrontZ == study.z + Half(study.depth) - 500000
      door4Right == door4X + Half(doorWidth)
      door2Left == door2X - Half(doorWidth)
      door2Right == door2X + Half(doorWidth)
  IN  << Box("wall3Left", door4X - Half(doorWidth), netWallHeight, netWallThick,
             Half(door4X - Half(doorWidth)) - centerX, Half(netWallHeight),
             studyFrontZ - centerZ),
         Box("wall3Mid", door2Left - door4Right, netWallHeight, netWallThick,
             door4Right - centerX, Half(netWallHeight), studyFrontZ - centerZ),
         Box("wall3Right", c.apartmentWidth - door2Right, netWallHeight, netWallThick,
             door2Right + Half(c.apartmentWidth - door2Right) - centerX,
             Half(netWallHeight), studyFrontZ - centerZ) >>

\* Wall 3: Study <-> Living divider with two door openings
netWall3(c) ==
  LET centerX == Half(c.apartmentWidth)
      centerZ == Half(c.apartmentDepth)
      wallHeight == netWallHeight
      study == find(c.rooms, "study")
      studyFrontZ == study.z + Half(study.depth) - 500000
      door4Left == door4X - Half(doorWidth)
      door4Right == door4X + Half(doorWidth)
      door2Left == door2X - Half(doorWidth)
      door2Right == door2X + Half(doorWidth)
      wall3LeftWidth == door4Left
      wall3MidWidth == door2Left - door4Right
      wall3RightWidth == c.apartmentWidth - door2Right
  IN  << Box("wall3Left", wall3LeftWidth, wallHeight, netWallThick,
             Half(door4Left) - centerX, Half(wallHeight), studyFrontZ - centerZ),
         Box("wall3Mid", wall3MidWidth, wallHeight, netWallThick,
             door4Right + Half(wall3MidWidth) - centerX, Half(wallHeight),
             studyFrontZ - centerZ),
         Box("wall3Right", wall3RightWidth, wallHeight, netWallThick,
             door2Right + Half(wall3RightWidth) - centerX, Half(wallHeight),
             studyFrontZ - centerZ) >>

\* Wall 4: coat hanging wall, 30% of the way from the north wall
netCoatWall(c) ==
  LET centerX == Half(c.apartmentWidth)
      centerZ == Half(c.apartmentDepth)
      wallHeight == netWallHeight
      study == find(c.rooms, "study")
      wall16Z == 0
      wall15Z == study.z + Half(study.depth)
      coatWallLength == Scale(wall15Z - wall16Z, 30, 100)
      coatWallCenterZ == wall16Z + Half(coatWallLength)
  IN  << Box("coatWall", netWallThick, wallHeight, coatWallLength,
             coatWallX - centerX, Half(wallHeight), coatWallCenterZ - centerZ) >>

\* Wall 5 with the main entry door centred left of the wall's start
netNorthWallDoorOutside(c) ==
  LET centerX == Half(c.apartmentWidth)
      centerZ == Half(c.apartmentDepth)
      wallHeight == netWallHeight
      mainDoorLeft == 100000 - Half(mainDoorWidth)
      mainDoorRight == 100000 + Half(mainDoorWidth)
      northSeg1Width == mainDoorLeft
      northSeg2Width == c.apartmentWidth - mainDoorRight
      northSeg2CenterX == Half(mainDoorRight + c.apartmentWidth) - centerX
  IN  << Box("northWall1", northSeg1Width, wallHeight, netWallThick,
             Half(northSeg1Width) - centerX, Half(wallHeight), -centerZ),
         Box("northWall2", northSeg2Width, wallHeight, netWallThick,
             northSeg2CenterX, Half(wallHeight), -centerZ) >>

\* Wall 5: north wall, two segments around the main entry door
netNorthWall(c) ==
  LET centerX == Half(c.apartmentWidth)
      centerZ == Half(c.apartmentDepth)
      wallHeight == netWallHeight
      mainDoorLeft == mainDoorX - Half(mainDoorWidth)
      mainDoorRight == mainDoorX + Half(mainDoorWidth)
      northSeg1Width == mainDoorLeft
      northSeg2Width == c.apartmentWidth - mainDoorRight
      northSeg2CenterX == Half(mainDoorRight + c.apartmentWidth) - centerX
  IN  << Box("northWall1", northSeg1Width, wallHeight, netWallThick,
             Half(northSeg1Width) - centerX, Half(wallHeight), -centerZ),
         Box("northWall2", northSeg2Width, wallHeight, netWallThick,
             northSeg2CenterX, Half(wallHeight), -centerZ) >>

\* West wall: sill, header and four sections around the windows W5, W4, W3
netWestWall(c) ==
  LET centerX == Half(c.apartmentWidth)
      centerZ == Half(c.apartmentDepth)
      wallHeight == netWallHeight
      westWallX == 0
      westWallDepth == c.apartmentDepth
      westWallThick == netWallThick
      w5Width == Scale(westNormalWidth, 9, 10)
      w4Width == Scale(westNormalWidth, 1125, 1000)
      w3Width == Scale(westNormalWidth, 2, 1)
      westMiddleHeight == westHeaderStart - westSillHeight
      w5Left == w5CenterZ - Half(w5Width)
      w5Right == w5CenterZ + Half(w5Width)
      w4Left == w4CenterZ - Half(w4Width)
      w4Right == w4CenterZ + Half(w4Width)
      w3Left == w3CenterZ - Half(w3Width)
      w3Right == w3CenterZ + Half(w3Width)
      westHeaderHeight == wallHeight - westHeaderStart
      westSec1Depth == w5Left
      westSec2Depth == w4Left - w5Right
      westSec3Depth == w3Left - w4Right
      westSec4Depth == westWallDepth - w3Right
      midY == westSillHeight + Half(westMiddleHeight)
  IN  << Box("westSill", westWallThick, westSillHeight, westWallDepth,
             westWallX - centerX, Half(westSillHeight), 0),
         Box("westHeader", westWallThick, westHeaderHeight, westWallDepth,
             westWallX - centerX, westHeaderStart + Half(westHeaderHeight), 0),
         Box("westSection1", westWallThick, westMiddleHeight, westSec1Depth,
             westWallX - centerX, midY, Half(westSec1Depth) - centerZ),
         Box("westSection2", westWallThick, westMiddleHeight, westSec2Depth,
             westWallX - centerX, midY, w5Right + Half(westSec2Depth) - centerZ),
         Box("westSection3", westWallThick, westMiddleHeight, westSec3Depth,
             westWallX - centerX, midY, w4Right + Half(westSec3Depth) - centerZ),
         Box("westSection4", westWallThick, westMiddleHeight, westSec4Depth,
             westWallX - centerX, midY, w3Right + Half(westSec4Depth) - centerZ) >>

\* East wall upper: three segments around the bathroom and kitchen doors
netEastWallUpper(c) ==
  LET centerX == Half(c.apartmentWidth)
      centerZ == Half(c.apartmentDepth)
      wallHeight == netWallHeight
      study == find(c.rooms, "study")
      studyFrontZ == study.z + Half(study.depth) - 500000
      bathroom == find(c.rooms, "bathroom")
      wall10X == bathroom.x + Half(bathroom.width)
      bathDoorTop == bathDoorZ - Half(wall10DoorWidth)
      bathDoorBottom == bathDoorZ + Half(wall10DoorWidth)
      kitchenDoorTop == kitchenDoorZ - Half(wall10DoorWidth)
      kitchenDoorBottom == kitchenDoorZ + Half(wall10DoorWidth)
      wall10Seg1Depth == bathDoorTop
      wall10Seg2Depth == kitchenDoorTop - bathDoorBottom
      wall10Seg2CenterZ == Half(bathDoorBottom + kitchenDoorTop) - centerZ
      wall10Seg3Depth == studyFrontZ - kitchenDoorBottom
      wall10Seg3CenterZ == Half(kitchenDoorBottom + studyFrontZ) - centerZ
  IN  << Box("eastWallUpper1", netWallThick, wallHeight, wall10Seg1Depth,
             wall10X - centerX, Half(wallHeight), Half(wall10Seg1Depth) - centerZ),
         Box("eastWallUpper2", netWallThick, wallHeight, wall10Seg2Depth,
             wall10X - centerX, Half(wallHeight), wall10Seg2CenterZ),
         Box("eastWallUpper3", netWallThick, wallHeight, wall10Seg3Depth,
             wall10X - centerX, Half(wallHeight), wall10Seg3CenterZ) >>

\* East wall lower: sill, header and three sections around the windows W1, W2
netEastWallLower(c) ==
  LET centerX == Half(c.apartmentWidth)
      centerZ == Half(c.apartmentDepth)
      wallHeight == netWallHeight
      notch == c.balconyNotch
      wall9X == c.apartmentWidth
      eastWallEndZ == c.apartmentDepth - notch.depth
      wallThick == netWallThick
      w1Width == Scale(normalWidth, 23, 10)
      w2Width == Scale(normalWidth, 125, 100)
      middleHeight == headerStart - sillHeight
      w1Left == w1CenterZ - Half(w1Width)
      w1Right == w1CenterZ + Half(w1Width)
      w2Left == w2CenterZ - Half(w2Width)
      w2Right == w2CenterZ + Half(w2Width)
      headerHeight == wallHeight - headerStart
      sec1Depth == w1Left
      sec2Depth == w2Left - w1Right
      sec3Depth == eastWallEndZ - w2Right
      midY == sillHeight + Half(middleHeight)
  IN  << Box("sill", wallThick, sillHeight, eastWallEndZ,
             wall9X - centerX, Half(sillHeight), Half(eastWallEndZ) - centerZ),
         Box("header", wallThick, headerHeight, eastWallEndZ,
             wall9X - centerX, headerStart + Half(headerHeight),
             Half(eastWallEndZ) - centerZ),
         Box("section1", wallThick, middleHeight, sec1Depth,
             wall9X - centerX, midY, Half(sec1Depth) - centerZ),
         Box("section2", wallThick, middleHeight, sec2Depth,
             wall9X - centerX, midY, w1Right + Half(sec2Depth) - centerZ),
         Box("section3", wallThick, middleHeight, sec3Depth,
             wall9X - centerX, midY, w2Right + Half(sec3Depth) - centerZ) >>

\* South wall, north balcony wall, west notch wall (French door), railings
netSouthAndBalcony(c) ==
  LET centerX == Half(c.apartmentWidth)
      centerZ == Half(c.apartmentDepth)
      wallHeight == netWallHeight
      notch == c.balconyNotch
      southWallZ == c.apartmentDepth
      southWallWidth == c.apartmentWidth - notch.width
      southWallCenterX == Half(southWallWidth) - centerX
      balconyOuterX == c.apartmentWidth + notch.width
      balconyStartZ == c.apartmentDepth - notch.depth
      notchFloorZ == (c.apartmentDepth - Half(notch.depth)) - centerZ
      wall16CenterX == c.apartmentWidth - centerX
      vertStepWallX == (c.apartmentWidth - notch.width) - centerX
      frenchDoorCenterZ == c.apartmentDepth - Half(notch.depth)
      frenchDoorFront == frenchDoorCenterZ - Half(frenchDoorWidth)
      frenchDoorBack == frenchDoorCenterZ + Half(frenchDoorWidth)
      frenchHeaderHeight == wallHeight - frenchDoorHeight
      westNotchStartZ == balconyStartZ
      westNotchEndZ == c.apartmentDepth
      frontWallDepth == frenchDoorFront - westNotchStartZ
      backWallDepth == westNotchEndZ - frenchDoorBack
      railings ==
        IF notch.hasRailing
        THEN << Box("eastRailing", railingThickness, railingHeight, notch.depth,
                    balconyOuterX - centerX, Half(railingHeight), notchFloorZ),
                Box("southBalconyWall", notch.width * 2, railingHeight, railingThickness,
                    wall16CenterX, Half(railingHeight), southWallZ - centerZ) >>
        ELSE << >>
  IN  << Box("southWall", southWallWidth, wallHeight, netWallThick,
             southWallCenterX, Half(wallHeight), southWallZ - centerZ),
         Box("northBalconyWall", notch.width * 2, wallHeight, netWallThick,
             wall16CenterX, Half(wallHeight), balconyStartZ - centerZ),
         Box("westNotchHeader", netWallThick, frenchHeaderHeight, notch.depth,
             vertStepWallX, frenchDoorHeight + Half(frenchHeaderHeight),
             (c.apartmentDepth - Half(notch.depth)) - centerZ),
         Box("westNotchFrontWall", netWallThick, frenchDoorHeight, frontWallDepth,
             vertStepWallX, Half(frenchDoorHeight),
             westNotchStartZ + Half(frontWallDepth) - centerZ),
         Box("westNotchBackWall", netWallThick, frenchDoorHeight, backWallDepth,
             vertStepWallX, Half(frenchDoorHeight),
             frenchDoorBack + Half(backWallDepth) - centerZ) >>
      \o railings

\* networkState.wallMeshes after buildFloorPlan
netBuildFloorPlan(c) ==
  netRoomWalls(c, Len(c.rooms)) \o netWall3(c) \o netCoatWall(c) \o netNorthWall(c)
    \o netWestWall(c) \o netEastWallUpper(c) \o netEastWallLower(c)
    \o netSouthAndBalcony(c)

-----------------------------------------------------------------------------
(* The screenshot comparison script.  A baseline file is compared with the   *)
(* current file of the same name; pixelmatch's count of differing pixels is  *)
(* an input.  Baselines are 80 x 50 pixels.                                   *)

baselineWidth == 80
baselineHeight == 50

Shot(current, width, height, numDiffPixels) ==
  [current |-> current, width |-> width, height |-> height,
   numDiffPixels |-> numDiffPixels]

Shots ==
  {Shot(FALSE, 0, 0, 0), Shot(TRUE, 80, 40, 0)}
    \cup {Shot(TRUE, 80, 50, n) : n \in {0, 3, 4, 5}}

Result(error, diffPixels, totalPixels, passed) ==
  [error |-> error, diffPixels |-> diffPixels, totalPixels |-> totalPixels,
   passed |-> passed]

\* diffPercent = numDiffPixels / totalPixels * 100, passed: diffPercent < 0.1
passedBelow(numDiffPixels, totalPixels) == numDiffPixels * 1000 < totalPixels

\* An error result has no passed field: it reads as undefined, which is falsy
compareImages(shot) ==
  IF ~shot.current THEN Result("Current not found", 0, 0, FALSE)
  ELSE IF baselineWidth # shot.width \/ baselineHeight # shot.height
  THEN Result("Dimension mismatch", 0, 0, FALSE)
  ELSE Result("", shot.numDiffPixels, baselineWidth * baselineHeight,
              passedBelow(shot.numDiffPixels, baselineWidth * baselineHeight))

NotRun ==
  [phase |-> "idle", files |-> << >>, results |-> << >>, hasFailures |-> FALSE,
   status |-> -1, message |-> ""]

\* compareAll starts: the baseline .png files of the viewports that have a baseline
\* directory, in reading order
compareAllStart(files) == [NotRun EXCEPT !.phase = "comparing", !.files = files]

\* One turn of the loop over the files: an error is logged and recorded, a failed
\* comparison also sets hasFailures
compareFile(run) ==
  LET result == compareImages(run.files[Len(run.results) + 1])
  IN  [run EXCEPT !.results = Append(@, result),
                  !.hasFailures = @ \/ (result.error = "" /\ ~result.passed)]

\* After the loop: the report is written and the process exits
compareAllExit(run) ==
  IF run.hasFailures
  THEN [run EXCEPT !.phase = "exited", !.status = 1,
                   !.message = "Some screenshots do not match baseline!"]
  ELSE IF Len(run.results) = 0
  THEN [run EXCEPT !.phase = "exited", !.status = 1,
                   !.message = "No screenshots to compare"]
  ELSE [run EXCEPT !.phase = "exited", !.status = 0,
                   !.message = "All screenshots match baseline!"]

-----------------------------------------------------------------------------
(* Colour utilities.  Metric values are in tenths (22.5 degrees is 225); a    *)
(* colour is its 24-bit hex number.                                           *)

Stop(value, color) == [value |-> value, color |-> color]

TEMP_COLORS ==
  << Stop(180, 9489145), Stop(220, 10868391), Stop(240, 8505220),
     Stop(260, 16769154), Stop(280, 16755601), Stop(320, 15684432) >>

HUMIDITY_COLORS ==
  << Stop(300, 16764032), Stop(400, 10868391), Stop(500, 8505220),
     Stop(600, 10868391), Stop(700, 9489145), Stop(850, 6056896) >>

neutral == 14737632

Channels(color) == << color \div 65536, (color \div 256) % 256, color % 256 >>
Hex(rgb) == rgb[1] * 65536 + rgb[2] * 256 + rgb[3]

\* result.lerpColors(lower, upper, factor).getHex(), factor = num / den in [0, 1]:
\* each channel is lower + (upper - lower) * factor, rounded to the nearest integer
lerpColors(lower, upper, num, den) ==
  Hex([k \in 1..3 |->
         (2 * (Channels(lower)[k] * den + (Channels(upper)[k] - Channels(lower)[k]) * num)
            + den) \div (2 * den)])

\* interpolateColor without the search for the pair of stops around the value
interpolateColorFromEnds(value, scale) ==
  IF value <= scale[1].value THEN scale[1].color
  ELSE IF value >= scale[Len(scale)].value THEN scale[Len(scale)].color
  ELSE lerpColors(scale[1].color, scale[Len(scale)].color,
                  value - scale[1].value, scale[Len(scale)].value - scale[1].value)

interpolateColor(value, scale) ==
  IF value <= scale[1].value THEN scale[1].color
  ELSE IF value >= scale[Len(scale)].value THEN scale[Len(scale)].color
  ELSE LET found == {i \in 1..(Len(scale) - 1) :
                       value >= scale[i].value /\ value <= scale[i + 1].value}
           i == CHOOSE k \in found : \A m \in found : k <= m
           lower == IF found = {} THEN scale[1] ELSE scale[i]
           upper == IF found = {} THEN scale[Len(scale)] ELSE scale[i + 1]
       IN  lerpColors(lower.color, upper.color,
                      value - lower.value, upper.value - lower.value)

\* A metric of a room record: a number, null, or undefined (the field is absent)
Number(v) == [is |-> "number", v |-> v]
Null == [is |-> "null", v |-> 0]
Undefined == [is |-> "undefined", v |-> 0]

RoomData(exists, temperature, humidity) ==
  [exists |-> exists, temperature |-> temperature, humidity |-> humidity]

getRoomColor(room, viewMode, tempColors, humidityColors) ==
  IF ~room.exists THEN neutral
  ELSE LET value == IF viewMode = "temperature" THEN room.temperature ELSE room.humidity
           scale == IF viewMode = "temperature" THEN tempColors ELSE humidityColors
       IN  IF value.is # "number" THEN neutral
           ELSE interpolateColor(value.v, scale)

NoCall ==
  [fn |-> "none", room |-> RoomData(FALSE, Undefined, Undefined), viewMode |-> "",
   value |-> 0, scale |-> << >>, result |-> 0]

-----------------------------------------------------------------------------
(* Containers, cameras and the state bag *)

NoContainer == [exists |-> FALSE, w |-> 0, h |-> 0]
Containers ==
  { NoContainer, [exists |-> TRUE, w |-> 0, h |-> 100], [exists |-> TRUE, w |-> 200, h |-> 0],
    [exists |-> TRUE, w |-> 200, h |-> 100], [exists |-> TRUE, w |-> 100, h |-> 100] }

\* !container || container.clientWidth === 0 || container.clientHeight === 0
NotReady(c) == ~c.exists \/ c.w = 0 \/ c.h = 0

Zero == Q(0, 1)
\* A camera position: a point (x, y, z), or the point of a horizontal circle,
\* (sin(angle) * radius, height, cos(angle) * radius); lengths in micrometres,
\* angles in microradians
At(x, y, z) ==
  [on |-> "point", x |-> x, y |-> y, z |-> z, radius |-> 0, angle |-> 0]
OnCircle(r, h, angle) ==
  [on |-> "circle", x |-> 0, y |-> h, z |-> 0, radius |-> r, angle |-> angle]

Origin == <<Zero, Zero>>
NoCamera ==
  [exists |-> FALSE, id |-> 0, kind |-> "none", left |-> Zero, right |-> Zero,
   top |-> Zero, bottom |-> Zero, aspect |-> Zero,
   position |-> At(0, 0, 0), target |-> Origin]

\* The four frustum planes set from a frustum size and the container's aspect ratio
Frustum(cam, frustumSize, c) ==
  Only({ [cam EXCEPT !.left = QDiv(QMul(size, aspect), Q(-2, 1)),
                     !.right = QDiv(QMul(size, aspect), Q(2, 1)),
                     !.top = QDiv(size, Q(2, 1)),
                     !.bottom = QDiv(size, Q(-2, 1))] :
           size \in {frustumSize}, aspect \in {Q(c.w, c.h)} })

\* position.set(10, 10, 10); lookAt(0, 0, 0)
createOrthographicCamera(c, frustumSize) ==
  Frustum([NoCamera EXCEPT !.exists = TRUE, !.kind = "orthographic",
                           !.position = At(10000000, 10000000, 10000000)],
          frustumSize, c)

\* position { x: 0, y: 14, z: -0.1 } as the 3D view passes it
createOrbitCamera(c) ==
  [NoCamera EXCEPT !.exists = TRUE, !.kind = "perspective", !.aspect = Q(c.w, c.h),
                   !.position = At(0, 14000000, -100000)]

\* isoState / networkState / threeState as declared: nothing built yet.
\* scene, renderer and animationId are ids, 0 for null.
\* floorMode is the viewMode the floor materials were last coloured for.
EmptyState ==
  [ scene |-> 0, camera |-> NoCamera, renderer |-> 0, controls |-> FALSE,
    roomMeshes |-> {}, wallMeshes |-> << >>, deviceMeshes |-> {},
    labelElements |-> {}, signalElements |-> {},
    animationId |-> 0, isInitialized |-> FALSE,
    panOffset |-> Origin, isPanning |-> FALSE, lastPanPos |-> <<0, 0>>,
    floorMode |-> "", wallNumberSprites |-> << >> ]

\* A component instance as returned by isometricView() / networkView() / threeDView()
NewComponent(v) ==
  [ phase |-> "new",
    zoomLevel |-> IF v = "net" THEN Q(2, 1) ELSE Q(1, 1),
    showLabels |-> FALSE,
    showSignalRange |-> FALSE,
    autoRotate |-> FALSE,
    rotationAngle |-> 0,
    viewMode |-> "temperature",
    wallsVisible |-> TRUE ]

-----------------------------------------------------------------------------
(* Labels.  A DOM element is [gen, key, kind, parent, x, y, vis, display]:   *)
(* gen numbers the createLabels call that made it, parent is the instance   *)
(* whose container holds it, vis is the CSS class "visible".                *)

LabelKeys(v, c) ==
  IF v = "net" THEN {c.devices[k].id : k \in DOMAIN c.devices}
  ELSE {c.rooms[k].id : k \in DOMAIN c.rooms}

deviceOf(c, id) == CHOOSE d \in Range(c.devices) : d.id = id

\* createLabels without the removal of the registered labels
createLabelsKeepingOld(w, i) ==
  LET g == w.ids.gen + 1
      made == {[gen |-> g, key |-> k, kind |-> "label", parent |-> i,
                x |-> 0, y |-> 0, vis |-> FALSE, display |-> ""] :
                  k \in LabelKeys(w.view, w.cfg)}
  IN  [w EXCEPT !.dom.elements = {e \in @ : e.parent # i} \cup made,
                !.st.labelElements = {<<k, g>> : k \in LabelKeys(w.view, w.cfg)},
                !.ids.gen = g,
                !.log = Append(@, "labels")]

\* Isometric and 3D views: one label per configured room
createLabels(w, i) ==
  LET registered == w.st.labelElements
      \* registered labels leave their parent; labels left in this container go too
      kept == {e \in w.dom.elements :
                 /\ <<e.key, e.gen>> \notin registered
                 /\ e.parent # i}
      g == w.ids.gen + 1
      made == {[gen |-> g, key |-> k, kind |-> "label", parent |-> i,
                x |-> 0, y |-> 0, vis |-> FALSE, display |-> ""] :
                  k \in LabelKeys(w.view, w.cfg)}
  IN  [w EXCEPT !.dom.elements = kept \cup made,
                !.st.labelElements = {<<k, g>> : k \in LabelKeys(w.view, w.cfg)},
                !.ids.gen = g,
                !.log = Append(@, "labels")]

\* Network view: one label per device, one signal circle per coordinator / router
netCreateLabels(w, i) ==
  LET registered == w.st.labelElements \cup w.st.signalElements
      kept == {e \in w.dom.elements : <<e.key, e.gen>> \notin registered}
      g == w.ids.gen + 1
      keys == LabelKeys(w.view, w.cfg)
      ranged == {k \in keys : deviceOf(w.cfg, k).type \in {"coordinator", "router"}}
      labels == {[gen |-> g, key |-> k, kind |-> "label", parent |-> i,
                  x |-> 0, y |-> 0, vis |-> TRUE, display |-> ""] : k \in keys}
      signals == {[gen |-> g, key |-> k, kind |-> "signal", parent |-> i,
                   x |-> 0, y |-> 0, vis |-> FALSE, display |-> ""] : k \in ranged}
  IN  [w EXCEPT !.dom.elements = kept \cup labels \cup signals,
                !.st.labelElements = {<<k, g>> : k \in keys},
                !.st.signalElements = {<<k, g>> : k \in ranged},
                !.ids.gen = g,
                !.log = Append(@, "labels")]

-----------------------------------------------------------------------------
(* The per-frame label update.  THREE's projection of an anchor is an input: *)
(* the frame's choice j rotates the rooms / devices through NdcChoices, so   *)
(* every label meets every listed position, in tenths of a device unit.      *)

margin == 20
NdcChoices == << <<0, 0>>, <<-12, 0>>, <<8, 6>>, <<6, 0>> >>

KeyIndex(v, c, key) ==
  IF v = "net" THEN CHOOSE k \in DOMAIN c.devices : c.devices[k].id = key
  ELSE CHOOSE k \in DOMAIN c.rooms : c.rooms[k].id = key

project(v, c, key, j) == NdcChoices[((j + KeyIndex(v, c, key) - 2) % Len(NdcChoices)) + 1]

\* x = (pos.x * 0.5 + 0.5) * width, y = (-pos.y * 0.5 + 0.5) * height
toScreenCoordinates(ndc, width, height) ==
  << ((ndc[1] + 10) * width) \div 20, ((10 - ndc[2]) * height) \div 20 >>

isVisible(x, y, containerWidth, containerHeight) ==
  /\ containerWidth > 0 /\ containerHeight > 0
  /\ x > margin /\ x < containerWidth - margin
  /\ y > margin /\ y < containerHeight - margin

\* Isometric and 3D views.  bad is the index of the first room whose feed record
\* has an undefined metric (0: none): toFixed throws there, after the rooms
\* before it were updated.
updateLabels(w, self, j, bad) ==
  LET container == w.cont[self]
      upd(e) ==
        LET p == toScreenCoordinates(project(w.view, w.cfg, e.key, j),
                                     container.w, container.h)
        IN  [e EXCEPT !.x = p[1], !.y = p[2],
                      !.vis = isVisible(p[1], p[2], container.w, container.h)]
      reached(e) == bad = 0 \/ KeyIndex(w.view, w.cfg, e.key) < bad
  IN  IF ~container.exists \/ ~w.st.camera.exists THEN w
      ELSE [w EXCEPT !.dom.elements =
                       {IF <<e.key, e.gen>> \in w.st.labelElements /\ reached(e)
                        THEN upd(e) ELSE e : e \in w.dom.elements},
                     !.thrown = (bad # 0 /\ w.st.labelElements # {})]

\* netUpdateLabels raising the marker's own position instead of a clone of it
netUpdateLabelsInPlace(w, self, j) ==
  LET container == w.cont[self]
      pos(e) == toScreenCoordinates(project(w.view, w.cfg, e.key, j),
                                    container.w, container.h)
      upd(e) ==
        IF e.kind = "label"
        THEN [e EXCEPT !.x = pos(e)[1], !.y = pos(e)[2],
                       !.display = IF w.comp[self].showLabels THEN "flex" ELSE "none"]
        ELSE [e EXCEPT !.x = pos(e)[1], !.y = pos(e)[2] + 40,
                       !.display = IF w.comp[self].showSignalRange THEN "block" ELSE "none"]
      tracked(e) ==
        /\ \E d \in w.st.deviceMeshes : d.id = e.key
        /\ <<e.key, e.gen>> \in w.st.labelElements
        /\ (e.kind = "signal" => <<e.key, e.gen>> \in w.st.signalElements)
      labelled(d) == \E e \in w.dom.elements : e.key = d.id /\ tracked(e)
  IN  IF ~container.exists \/ ~w.st.camera.exists THEN w
      ELSE [w EXCEPT !.dom.elements =
                       {IF tracked(e) THEN upd(e) ELSE e : e \in w.dom.elements},
                     !.st.deviceMeshes =
                       {IF labelled(d)
                        THEN [d EXCEPT !.position = <<@[1], @[2] + 300000, @[3]>>]
                        ELSE d : d \in @}]

\* Network view: position every device label, display follows the toggles
netUpdateLabels(w, self, j) ==
  LET container == w.cont[self]
      pos(e) == toScreenCoordinates(project(w.view, w.cfg, e.key, j),
                                    container.w, container.h)
      upd(e) ==
        IF e.kind = "label"
        THEN [e EXCEPT !.x = pos(e)[1], !.y = pos(e)[2],
                       !.display = IF w.comp[self].showLabels THEN "flex" ELSE "none"]
        ELSE [e EXCEPT !.x = pos(e)[1], !.y = pos(e)[2] + 40,
                       !.display = IF w.comp[self].showSignalRange THEN "block" ELSE "none"]
      tracked(e) ==
        /\ \E d \in w.st.deviceMeshes : d.id = e.key
        /\ <<e.key, e.gen>> \in w.st.labelElements
        /\ (e.kind = "signal" => <<e.key, e.gen>> \in w.st.signalElements)
  IN  IF ~container.exists \/ ~w.st.camera.exists THEN w
      ELSE [w EXCEPT !.dom.elements =
                       {IF tracked(e) THEN upd(e) ELSE e : e \in w.dom.elements}]

radius == 17320000
height == 10000000
rotationStep == 3000

rotateAroundOrigin(w, self) ==
  IF w.view = "net" /\ w.comp[self].autoRotate /\ w.st.camera.exists
  THEN [w EXCEPT !.comp[self].rotationAngle = @ + rotationStep,
                 !.st.camera.position =
                   OnCircle(radius, height, w.comp[self].rotationAngle + rotationStep),
                 !.st.camera.target = Origin]
  ELSE w

\* Network view, auto-rotate on: the angle advances, the camera moves to the
\* circle's point of the new angle and looks at the pan offset
rotate(w, self) ==
  IF w.view = "net" /\ w.comp[self].autoRotate /\ w.st.camera.exists
  THEN [w EXCEPT !.comp[self].rotationAngle = @ + rotationStep,
                 !.st.camera.position =
                   OnCircle(radius, height, w.comp[self].rotationAngle + rotationStep),
                 !.st.camera.target = w.st.panOffset]
  ELSE w

\* Isometric and 3D views: every floor takes getRoomColor(roomData, this.viewMode)
updateRoomColors(w, self) ==
  IF w.st.roomMeshes = {} THEN w
  ELSE [w EXCEPT !.st.floorMode = w.comp[self].viewMode]

\* One run of the render loop's callback: re-schedule first, then update
loop(w, self, j, bad) ==
  Only({ IF w.view = "net" THEN netUpdateLabels(w2, self, j)
         ELSE updateLabels(updateRoomColors(w2, self), self, j, bad) :
           w2 \in { rotate(w1, self) :
                      w1 \in { [w EXCEPT !.ids.raf = w.ids.raf + 1,
                                         !.rafs = @ \cup {[id |-> w.ids.raf + 1, self |-> self]},
                                         !.st.animationId = w.ids.raf + 1] } } })

-----------------------------------------------------------------------------
(* Full initialization, step by step.  A step works on the record w of all   *)
(* mutable state; w.thrown is set by a step that throws, and the steps       *)
(* after it do not run.                                                      *)

roomWallsThree(c, config) ==
  LET rx == config.x - Half(c.apartmentWidth)
      rz == config.z - Half(c.apartmentDepth)
  IN  << Box("backWall", config.width, c.wallHeight, 150000,
             rx, Half(c.wallHeight), rz - Half(config.depth)),
         Box("frontWall", config.width, c.wallHeight, 150000,
             rx, Half(c.wallHeight), rz + Half(config.depth)),
         Box("leftWall", 150000, c.wallHeight, config.depth,
             rx - Half(config.width), Half(c.wallHeight), rz) >>

\* Isometric / 3D room-builder: back, front, left and right wall of every room
roomWalls(c, config) ==
  LET centerX == Half(c.apartmentWidth)
      centerZ == Half(c.apartmentDepth)
      halfW == Half(config.width)
      halfD == Half(config.depth)
      rx == config.x - centerX
      rz == config.z - centerZ
      wallHeight == c.wallHeight
  IN  << Box("backWall", config.width, wallHeight, 150000, rx, Half(wallHeight), rz - halfD),
         Box("frontWall", config.width, wallHeight, 150000, rx, Half(wallHeight), rz + halfD),
         Box("leftWall", 150000, wallHeight, config.depth, rx - halfW, Half(wallHeight), rz),
         Box("rightWall", 150000, wallHeight, config.depth, rx + halfW, Half(wallHeight), rz) >>

floorOffCentre(c, config) ==
  Box("floor", config.width, 50000, config.depth, config.x, 25000, config.z)

\* floor.position.set(config.x - centerX, 0.025, config.z - centerZ)
createRoomFloor(c, config) ==
  Box("floor", config.width, 50000, config.depth,
      config.x - Half(c.apartmentWidth), 25000, config.z - Half(c.apartmentDepth))

\* Room builder: the group of one floor and the four walls
createRoom(c, config) ==
  [floors |-> <<createRoomFloor(c, config)>>, walls |-> roomWalls(c, config)]

RECURSIVE allRoomWalls(_, _)
allRoomWalls(c, k) ==
  IF k = 0 THEN << >> ELSE allRoomWalls(c, k - 1) \o roomWalls(c, c.rooms[k])

\* A mesh as held by the state bag: visible, and a child of the scene it was added to
InScene(walls, scene) ==
  [k \in DOMAIN walls |-> [mesh |-> walls[k], scene |-> scene, visible |-> TRUE]]

keepThreeState(w) == w

\* renderer.dispose(), scene.clear(), cancelAnimationFrame(animationId), each if set
cleanupThreeState(w) ==
  [w EXCEPT !.heap.renderers =
              [r \in DOMAIN @ |-> IF r = w.st.renderer THEN "disposed" ELSE @[r]],
            !.heap.scenes =
              [x \in DOMAIN @ |-> IF x = w.st.scene THEN "cleared" ELSE @[x]],
            !.rafs = {r \in @ : r.id # w.st.animationId},
            !.log = @ \o (IF w.st.renderer # 0 THEN <<"dispose">> ELSE << >>)
                      \o (IF w.st.scene # 0 THEN <<"clear">> ELSE << >>)
                      \o (IF w.st.animationId # 0 THEN <<"cancel">> ELSE << >>)]

initScene(w) ==
  [w EXCEPT !.heap.scenes = Append(@, "live"),
            !.st.scene = Len(w.heap.scenes) + 1,
            !.log = Append(@, "scene")]

\* The 3D view's camera comes with its OrbitControls, which listen on the container
initCamera(w, i) ==
  IF w.view = "three"
  THEN [w EXCEPT !.st.camera = [createOrbitCamera(w.cont[i]) EXCEPT !.id = w.ids.cam + 1],
                 !.ids.cam = @ + 1,
                 !.st.controls = TRUE,
                 !.dom.listeners = @ \cup {[on |-> i, owner |-> i, kind |-> "orbit"]},
                 !.log = @ \o <<"camera", "handlers">>]
  ELSE [w EXCEPT !.st.camera =
                   [createOrthographicCamera(w.cont[i], Q(15, 1)) EXCEPT !.id = w.ids.cam + 1],
                 !.ids.cam = @ + 1,
                 !.log = Append(@, "camera")]

\* new THREE.WebGLRenderer throws when no WebGL context can be created (gl)
initRenderer(w, i, gl) ==
  IF gl THEN [w EXCEPT !.thrown = TRUE]
  ELSE [w EXCEPT !.heap.renderers = Append(@, "live"),
                 !.dom.canvas = Append(@, [parent |-> i, w |-> w.cont[i].w, h |-> w.cont[i].h]),
                 !.st.renderer = Len(w.heap.renderers) + 1,
                 !.log = Append(@, "renderer")]

initLighting(w) == [w EXCEPT !.log = Append(@, "lighting")]

\* createRoom of the network view reads study and bathroom, looked up by id, for the
\* bedroom's right wall: reading a field of a room that find did not return throws
netCreateRoomThrows(c, config) ==
  config.id = "bedroom" /\ (~has(c.rooms, "study") \/ ~has(c.rooms, "bathroom"))

\* The rooms createRoom finishes before one throws (all of them if none does)
netRoomsCreated(c) ==
  LET throwing == {k \in DOMAIN c.rooms : netCreateRoomThrows(c, c.rooms[k])}
  IN  IF throwing = {} THEN Len(c.rooms)
      ELSE (CHOOSE k \in throwing : \A m \in throwing : k <= m) - 1

\* The walls pushed before buildFloorPlan reads study.z (wall 3) or bathroom.x
\* (wall 10) of a room that is not configured
netWallsBeforeThrow(c) ==
  IF netRoomsCreated(c) < Len(c.rooms) \/ ~has(c.rooms, "study")
  THEN netRoomWalls(c, netRoomsCreated(c))
  ELSE netRoomWalls(c, Len(c.rooms)) \o netWall3(c) \o netCoatWall(c) \o netNorthWall(c)
         \o netWestWall(c)

netBuildThrows(c) == ~has(c.rooms, "study") \/ ~has(c.rooms, "bathroom")

buildThrows(w) == w.view = "net" /\ netBuildThrows(w.cfg)

buildFloorPlan(w) ==
  LET group(config) == IF w.view = "net" THEN netRoom(w.cfg, config)
                       ELSE createRoom(w.cfg, config)
      created == IF w.view = "net" THEN 1..netRoomsCreated(w.cfg) ELSE DOMAIN w.cfg.rooms
      built == {[id |-> w.cfg.rooms[k].id, scene |-> w.st.scene,
                 floors |-> group(w.cfg.rooms[k]).floors,
                 walls |-> group(w.cfg.rooms[k]).walls] : k \in created}
      rebuilt == {r.id : r \in built}
  IN  Only({ [w EXCEPT !.st.wallMeshes = InScene(walls, w.st.scene),
                       !.st.roomMeshes = {r \in @ : r.id \notin rebuilt} \cup built,
                       !.thrown = buildThrows(w),
                       !.log = IF buildThrows(w) THEN @ ELSE Append(@, "geometry")] :
               walls \in { IF buildThrows(w) THEN netWallsBeforeThrow(w.cfg)
                           ELSE IF w.view = "net" THEN netBuildFloorPlan(w.cfg)
                           ELSE allRoomWalls(w.cfg, Len(w.cfg.rooms)) } })

tolerance == 50000
lengthTolerance == 200000
compassOffset == 1000000

\* The letter of a full-length wall on an edge of the apartment, "" for null
getOuterWallDirection(c, wall) ==
  LET halfW == Half(c.apartmentWidth)
      halfD == Half(c.apartmentDepth)
      isHorizontal == wall.w > wall.d
      isVertical == wall.d > wall.w
      horizontal ==
        IF isHorizontal /\ Abs(wall.w - c.apartmentWidth) < lengthTolerance
        THEN IF Abs(wall.z - (-halfD)) < tolerance THEN "S"
             ELSE IF Abs(wall.z - halfD) < tolerance THEN "N" ELSE ""
        ELSE ""
  IN  IF isVertical /\ Abs(wall.d - c.apartmentDepth) < lengthTolerance
      THEN IF Abs(wall.x - (-halfW)) < tolerance THEN "E"
           ELSE IF Abs(wall.x - halfW) < tolerance THEN "W" ELSE horizontal
      ELSE horizontal

\* Three sprites per wall, at its start, middle and end, 0.5 above its centre:
\* the direction letter of an outer wall, the wall's index otherwise
wallNumberSpritesOf(c, wall, index) ==
  LET directionLabel == getOuterWallDirection(c, wall)
      isHorizontal == wall.w > wall.d
      wallLength == IF isHorizontal THEN wall.w ELSE wall.d
      halfLen == Scale(Half(wallLength), 80, 100)
      label == IF directionLabel # "" THEN directionLabel ELSE ToString(index)
      sprite(x, z) == [label |-> label, x |-> x, y |-> wall.y + 500000, z |-> z,
                       visible |-> FALSE]
  IN  IF isHorizontal
      THEN << sprite(wall.x - halfLen, wall.z), sprite(wall.x, wall.z),
              sprite(wall.x + halfLen, wall.z) >>
      ELSE << sprite(wall.x, wall.z - halfLen), sprite(wall.x, wall.z),
              sprite(wall.x, wall.z + halfLen) >>

RECURSIVE wallNumbers(_, _, _)
wallNumbers(c, walls, k) ==
  IF k = 0 THEN << >>
  ELSE wallNumbers(c, walls, k - 1) \o wallNumberSpritesOf(c, walls[k].mesh, k - 1)

\* The old sprites go, every registered wall gets its three
addWallNumbers(w) ==
  [w EXCEPT !.st.wallNumberSprites = wallNumbers(w.cfg, w.st.wallMeshes, Len(w.st.wallMeshes)),
            !.log = Append(@, "geometry")]

\* The four compass sprites buildFloorPlan puts outside the building
compassLabels(c) ==
  LET halfW == Half(c.apartmentWidth)
      halfD == Half(c.apartmentDepth)
  IN  { [label |-> "N", x |-> 0, z |-> -halfD - compassOffset],
        [label |-> "S", x |-> 0, z |-> halfD + compassOffset],
        [label |-> "W", x |-> -halfW - compassOffset, z |-> 0],
        [label |-> "E", x |-> halfW + compassOffset, z |-> 0] }

markerFromCorner(c, device) ==
  LET room == find(c.rooms, device.room)
  IN  IF ~has(c.rooms, device.room) THEN <<0, 0, 0>>
      ELSE << room.x - Half(c.apartmentWidth) + device.x * 8 * (room.width \div 1000),
              500000,
              room.z - Half(c.apartmentDepth) + device.z * 8 * (room.depth \div 1000) >>

markerUnscaled(c, device) ==
  LET room == find(c.rooms, device.room)
  IN  IF ~has(c.rooms, device.room) THEN <<0, 0, 0>>
      ELSE << room.x - Half(c.apartmentWidth) + (device.x - 50) * 12 * (room.width \div 1000),
              500000,
              room.z - Half(c.apartmentDepth) + (device.z - 50) * 12 * (room.depth \div 1000) >>

\* The marker's position: roomCenter + (device.x - 0.5) * room.width * 0.8 on x,
\* likewise on z, at height 0.5; a new mesh's (0, 0, 0) when the room is not found
markerPosition(c, device) ==
  LET room == find(c.rooms, device.room)
  IN  IF ~has(c.rooms, device.room) THEN <<0, 0, 0>>
      ELSE << room.x - Half(c.apartmentWidth) + (device.x - 50) * 8 * (room.width \div 1000),
              500000,
              room.z - Half(c.apartmentDepth) + (device.z - 50) * 8 * (room.depth \div 1000) >>

\* One marker per device, added to the scene and recorded under the device's id
createDevices(w) ==
  [w EXCEPT !.st.deviceMeshes =
              { [id |-> d.id, scene |-> w.st.scene, position |-> markerPosition(w.cfg, d)] :
                  d \in Range(w.cfg.devices) },
            !.log = Append(@, "geometry")]

setupPanControls(w, i) ==
  [w EXCEPT !.dom.listeners = @ \cup {[on |-> i, owner |-> i, kind |-> "pan"]},
            !.log = Append(@, "handlers")]

animateNotStarted(w, i, j, bad) == [w EXCEPT !.log = Append(@, "loop")]

\* animate(): the first run of the render loop's callback
animate(w, i, j, bad) ==
  Only({loop(w1, i, j, bad) : w1 \in {[w EXCEPT !.log = Append(@, "loop")]}})

InitSequenceLoopFirst(v) ==
  << "initScene", "initCamera", "initRenderer", "animate", "initLighting",
     "buildFloorPlan", "createLabels" >>

\* The calls of waitForContainer's full-initialization path, in source order
InitSequence(v) ==
  CASE v = "iso" ->
         << "initScene", "initCamera", "initRenderer", "initLighting", "buildFloorPlan",
            "createLabels", "setupPanControls", "animate" >>
    [] v = "net" ->
         << "initScene", "initCamera", "initRenderer", "initLighting", "buildFloorPlan",
            "addWallNumbers", "createDevices", "createLabels", "setupPanControls",
            "animate" >>
    [] v = "three" ->
         << "initScene", "initCamera", "initRenderer", "initLighting", "buildFloorPlan",
            "createLabels", "animate" >>

Step(name, w, i, f) ==
  CASE name = "initScene" -> initScene(w)
    [] name = "initCamera" -> initCamera(w, i)
    [] name = "initRenderer" -> initRenderer(w, i, f.gl)
    [] name = "initLighting" -> initLighting(w)
    [] name = "buildFloorPlan" -> buildFloorPlan(w)
    [] name = "addWallNumbers" -> addWallNumbers(w)
    [] name = "createDevices" -> createDevices(w)
    [] name = "createLabels" ->
         IF w.view = "net" THEN netCreateLabels(w, i) ELSE createLabels(w, i)
    [] name = "setupPanControls" -> setupPanControls(w, i)
    [] name = "animate" -> animate(w, i, f.j, f.bad)

RECURSIVE RunSteps(_, _, _, _, _)
RunSteps(steps, k, w, i, f) ==
  IF k > Len(steps) \/ w.thrown THEN w
  ELSE Only({RunSteps(steps, k + 1, x, i, f) : x \in {Step(steps[k], w, i, f)}})

\* Clean up, build everything, then mark the state bag initialized
fullInit(w, i, f) ==
  Only({ IF w1.thrown THEN w1
         ELSE [w1 EXCEPT !.st.isInitialized = TRUE,
                         !.dom.listeners =
                           @ \cup {[on |-> 0, owner |-> i, kind |-> "resize"]}] :
           w1 \in { RunSteps(InitSequence(w.view), 1, w0, i, f) :
                      w0 \in {cleanupThreeState([w EXCEPT !.log = << >>])} } })

\* onResize of instance i: frustum (or aspect) from the container, renderer resized
onResize(w, i) ==
  LET c == w.cont[i]
      r == w.st.renderer
  IN  IF ~c.exists \/ ~w.st.camera.exists \/ r = 0 THEN w
      ELSE [w EXCEPT !.st.camera =
                       IF w.view = "three" THEN [@ EXCEPT !.aspect = Q(c.w, c.h)]
                       ELSE Frustum(@, QDiv(Q(15, 1), w.comp[i].zoomLevel), c),
                     !.dom.canvas[r] = [@ EXCEPT !.w = c.w, !.h = c.h]]

reattachRebuilding(w, i) == fullInit(w, i, [gl |-> FALSE, j |-> 1, bad |-> 0])

\* The already-initialized path: canvas into this container, labels, resize
reattach(w, i) ==
  Only({ onResize(w3, i) :
           w3 \in { [w2 EXCEPT !.log = w.log] :
                      w2 \in { IF w.view = "net" THEN netCreateLabels(w1, i)
                               ELSE createLabels(w1, i) :
                                 w1 \in {[w EXCEPT !.dom.canvas[w.st.renderer].parent = i]} } } })

-----------------------------------------------------------------------------
(* waitForContainer and the events that run it *)

World ==
  [ view |-> view, cfg |-> cfg, st |-> st, comp |-> comp, cont |-> cont, dom |-> dom,
    heap |-> heap, timers |-> timers, rafs |-> rafs, ids |-> ids, log |-> initLog,
    thrown |-> FALSE ]

\* The program's writes; the container layout and the configuration are not its to change
Commit(w) ==
  /\ st' = w.st /\ comp' = w.comp /\ dom' = w.dom /\ heap' = w.heap
  /\ timers' = w.timers /\ rafs' = w.rafs /\ ids' = w.ids /\ initLog' = w.log
  /\ UNCHANGED <<view, cfg, cont, script, colorCall>>

retryNone(w, i) == w

\* setTimeout(() => this.waitForContainer(), 100)
retry(w, i) ==
  [w EXCEPT !.ids.timer = @ + 1,
            !.timers = @ \cup {[id |-> w.ids.timer + 1, inst |-> i, delay |-> 100]}]

\* waitForContainer without the already-initialized path
waitForContainerAlwaysInit(w, i, f) ==
  IF NotReady(w.cont[i]) THEN retry(w, i) ELSE fullInit(w, i, f)

waitForContainer(w, i, f) ==
  IF NotReady(w.cont[i]) THEN retry(w, i)
  ELSE IF w.st.isInitialized /\ w.st.renderer # 0 THEN reattach(w, i)
  ELSE fullInit(w, i, f)

\* What the call left the instance doing (bookkeeping of the model)
Outcome(w, i) ==
  [w EXCEPT !.comp[i].phase =
              IF w.thrown THEN "threw"
              ELSE IF \E t \in w.timers : t.inst = i THEN "polling"
              ELSE "attached"]

\* Inputs of one waitForContainer call: WebGL context refused, projection choice,
\* first room whose feed record has an undefined metric
BadRooms == {0, 2}
Inputs(v) ==
  { [gl |-> g, j |-> j, bad |-> b] :
      g \in (IF budget.faults > 0 THEN BOOLEAN ELSE {FALSE}),
      j \in {1},
      b \in (IF budget.faults > 0 /\ v # "net" THEN BadRooms ELSE {0}) }

Faulty(f) == f.gl \/ f.bad # 0

\* A retry needs a fresh timer
CanPoll(i) == NotReady(cont[i]) => ids.timer < budget.polls

\* Alpine mounts instance i and calls init()
Activate(i) ==
  /\ comp[i].phase = "new"
  /\ i <= budget.insts
  /\ \A k \in Inst : k < i => comp[k].phase # "new"
  /\ CanPoll(i)
  /\ \E f \in Inputs(view) :
     \E w0 \in {World} :
     \E w1 \in {waitForContainer(w0, i, f)} :
     \E w \in {Outcome(w1, i)} :
       /\ Commit(w)
       /\ budget' = IF w.thrown THEN [budget EXCEPT !.faults = @ - 1] ELSE budget
  /\ UNCHANGED wheelRun

\* The 100 ms timer t fires
Poll(t) ==
  /\ t \in timers
  /\ CanPoll(t.inst)
  /\ \E f \in Inputs(view) :
     \E w0 \in {[World EXCEPT !.timers = @ \ {t}]} :
     \E w1 \in {waitForContainer(w0, t.inst, f)} :
     \E w \in {Outcome(w1, t.inst)} :
       /\ Commit(w)
       /\ budget' = IF w.thrown THEN [budget EXCEPT !.faults = @ - 1] ELSE budget
  /\ UNCHANGED wheelRun

\* The animation-frame callback r fires
Frame(r) ==
  /\ r \in rafs
  /\ ids.raf < budget.frames
  /\ \E j \in DOMAIN NdcChoices :
     \E bad \in (IF budget.faults > 0 /\ view # "net" THEN BadRooms ELSE {0}) :
     \E w0 \in {[World EXCEPT !.rafs = @ \ {r}]} :
     \E w \in {loop(w0, r.self, j, bad)} :
       /\ Commit(w)
       /\ budget' = IF w.thrown THEN [budget EXCEPT !.faults = @ - 1] ELSE budget
  /\ UNCHANGED wheelRun

\* The page lays out, hides or removes the container of instance i
Layout(i, c) ==
  /\ budget.layouts > 0
  /\ c # cont[i]
  /\ cont' = [cont EXCEPT ![i] = c]
  /\ budget' = [budget EXCEPT !.layouts = @ - 1]
  /\ UNCHANGED <<view, cfg, st, comp, dom, heap, timers, rafs, ids, initLog, wheelRun, script,
               colorCall>>

\* window 'resize' reaches the listener a completed initialization installed
Resize(l) ==
  /\ l \in dom.listeners /\ l.kind = "resize"
  /\ budget.events > 0
  /\ Commit(onResize(World, l.owner))
  /\ budget' = [budget EXCEPT !.events = @ - 1]
  /\ UNCHANGED wheelRun

-----------------------------------------------------------------------------
(* Zoom controls of the isometric and network views *)

Zoomable == view \in {"iso", "net"}

updateCameraZoom(w, i) ==
  IF ~w.cont[i].exists \/ ~w.st.camera.exists THEN w
  ELSE [w EXCEPT !.st.camera = Frustum(@, QDiv(Q(15, 1), w.comp[i].zoomLevel), w.cont[i])]

noClamp(level) == level

\* this.zoomLevel = Math.max(0.5, Math.min(3.0, level))
clamp(level) == QMax(Q(1, 2), QMin(Q(3, 1), level))

setZoom(w, i, level) ==
  updateCameraZoom([w EXCEPT !.comp[i].zoomLevel = clamp(level)], i)

zoomIn(w, i) == setZoom(w, i, QMul(w.comp[i].zoomLevel, Q(6, 5)))
zoomOut(w, i) == setZoom(w, i, QDiv(w.comp[i].zoomLevel, Q(6, 5)))

wheelCoarse(w, i, deltaY) ==
  setZoom(w, i, QMul(w.comp[i].zoomLevel, IF deltaY > 0 THEN Q(4, 5) ELSE Q(6, 5)))

\* const zoomDelta = e.deltaY > 0 ? 0.9 : 1.1
wheel(w, i, deltaY) ==
  setZoom(w, i, QMul(w.comp[i].zoomLevel, IF deltaY > 0 THEN Q(9, 10) ELSE Q(11, 10)))

PiOver4 == 785398

\* Zoom level, rotation and pan offset are reset, then the camera is
\* dereferenced unguarded
resetView(w, i) ==
  LET w1 == IF w.view = "net"
            THEN [w EXCEPT !.comp[i].zoomLevel = Q(1, 1),
                           !.comp[i].autoRotate = FALSE,
                           !.comp[i].rotationAngle = PiOver4,
                           !.st.panOffset = Origin]
            ELSE [w EXCEPT !.comp[i].zoomLevel = Q(1, 1), !.st.panOffset = Origin]
      w2 == [w1 EXCEPT !.st.camera.target = Origin,
                       !.st.camera.position =
                         IF w.view = "net" THEN At(10000000, 10000000, 10000000) ELSE @]
  IN  IF ~w.st.camera.exists THEN [w1 EXCEPT !.thrown = TRUE]
      ELSE updateCameraZoom(w2, i)

\* Math.atan2(pos.x, pos.z) for the positions the network camera takes
atan2(pos) ==
  CASE pos.on = "circle" -> pos.angle
    [] pos.on = "point" /\ pos.x = pos.z /\ pos.x > 0 -> PiOver4
    [] pos.on = "point" /\ pos.x = 0 /\ pos.z > 0 -> 0

\* The flag flips first; switching on reads the camera's position, unguarded
toggleAutoRotate(w, i) ==
  LET w1 == [w EXCEPT !.comp[i].autoRotate = ~@]
  IN  IF ~w1.comp[i].autoRotate THEN w1
      ELSE IF ~w.st.camera.exists THEN [w1 EXCEPT !.thrown = TRUE]
      ELSE [w1 EXCEPT !.comp[i].rotationAngle = atan2(w.st.camera.position)]

\* Pan gesture.  pos is the pointer's <<clientX, clientY>>.
pointerdown(w, i, pos) ==
  IF w.view = "net" /\ w.comp[i].autoRotate THEN w
  ELSE [w EXCEPT !.st.isPanning = TRUE, !.st.lastPanPos = pos]

\* A screen delta becomes a world delta: 0.02 per pixel in the network view,
\* 0.02 / zoomLevel * 0.7 on the two skewed axes in the isometric view
pointermove(w, i, pos) ==
  LET dx == pos[1] - w.st.lastPanPos[1]
      dy == pos[2] - w.st.lastPanPos[2]
      offset ==
        IF w.view = "net"
        THEN << QSub(w.st.panOffset[1], Q(dx * 20000, 1)),
                QSub(w.st.panOffset[2], Q(dy * 20000, 1)) >>
        ELSE << QSub(w.st.panOffset[1], QDiv(Q((dx - dy) * 14000, 1), w.comp[i].zoomLevel)),
                QSub(w.st.panOffset[2], QDiv(Q((dx + dy) * 14000, 1), w.comp[i].zoomLevel)) >>
  IN  IF ~w.st.isPanning THEN w
      ELSE IF ~w.st.camera.exists THEN [w EXCEPT !.st.panOffset = offset, !.thrown = TRUE]
      ELSE [w EXCEPT !.st.panOffset = offset,
                     !.st.camera.target = offset,
                     !.st.lastPanPos = pos]

pointerup(w, i) == [w EXCEPT !.st.isPanning = FALSE]

\* Only the isometric view listens for pointerleave
pointerleave(w, i) == IF w.view = "iso" THEN [w EXCEPT !.st.isPanning = FALSE] ELSE w

\* Levels handed to setZoom: below, inside and above the range, and +-Infinity
Levels == { Q(-1, 0), Q(0, 1), Q(1, 4), Q(7, 4), Q(100, 1), Q(1, 0) }
DeltaYs == {-100, 0, 100}

\* One user event on an instance whose component exists
UserEvent(w, i) ==
  /\ budget.events > 0
  /\ w.comp[i].zoomLevel[2] <= MaxDen
  /\ Commit(w)
  /\ budget' = [budget EXCEPT !.events = @ - 1]

Wheel(l, deltaY) ==
  /\ Zoomable
  /\ l \in dom.listeners /\ l.kind = "pan" /\ cont[l.on].exists
  /\ UserEvent(wheel(World, l.owner, deltaY), l.owner)
  /\ wheelRun' = [wheelRun EXCEPT ![l.owner] =
                    IF deltaY <= 0 THEN 0
                    ELSE IF comp[l.owner].zoomLevel = Q(1, 1) THEN 1
                    ELSE IF @ \in 1..9 THEN @ + 1
                    ELSE IF @ = 10 THEN 10 ELSE 0]

ZoomIn(i) ==
  /\ Zoomable /\ comp[i].phase # "new"
  /\ UserEvent(zoomIn(World, i), i)
  /\ wheelRun' = [wheelRun EXCEPT ![i] = 0]

ZoomOut(i) ==
  /\ Zoomable /\ comp[i].phase # "new"
  /\ UserEvent(zoomOut(World, i), i)
  /\ wheelRun' = [wheelRun EXCEPT ![i] = 0]

SetZoom(i, level) ==
  /\ Zoomable /\ comp[i].phase # "new"
  /\ UserEvent(setZoom(World, i, level), i)
  /\ wheelRun' = [wheelRun EXCEPT ![i] = 0]

ResetView(i) ==
  /\ Zoomable /\ comp[i].phase # "new"
  /\ UserEvent(resetView(World, i), i)
  /\ wheelRun' = [wheelRun EXCEPT ![i] = 0]

Points == { <<0, 0>>, <<50, 0>>, <<50, 100>> }
PanListener(l) == Zoomable /\ l \in dom.listeners /\ l.kind = "pan" /\ cont[l.on].exists

PointerDown(l, pos) ==
  /\ PanListener(l)
  /\ UserEvent(pointerdown(World, l.owner, pos), l.owner)
  /\ UNCHANGED wheelRun

PointerMove(l, pos) ==
  /\ PanListener(l)
  /\ UserEvent(pointermove(World, l.owner, pos), l.owner)
  /\ UNCHANGED wheelRun

PointerUp(l) ==
  /\ PanListener(l)
  /\ UserEvent(pointerup(World, l.owner), l.owner)
  /\ UNCHANGED wheelRun

\* The pointer leaves the container
PointerLeave(l) ==
  /\ PanListener(l)
  /\ UserEvent(pointerleave(World, l.owner), l.owner)
  /\ UNCHANGED wheelRun

ToggleAutoRotate(i) ==
  /\ view = "net" /\ comp[i].phase # "new"
  /\ UserEvent(toggleAutoRotate(World, i), i)
  /\ UNCHANGED wheelRun

\* The instance mounted last: the component the page shows
Active(i) == comp[i].phase # "new" /\ \A k \in Inst : k > i => comp[k].phase = "new"

\* wallMeshes.forEach(wall => { wall.visible = visible })
setWallsVisibility(wallMeshes, visible) ==
  [k \in DOMAIN wallMeshes |-> [wallMeshes[k] EXCEPT !.visible = visible]]

toggleWalls(w, i) ==
  Only({ [w1 EXCEPT !.st.wallMeshes = setWallsVisibility(@, w1.comp[i].wallsVisible)] :
           w1 \in {[w EXCEPT !.comp[i].wallsVisible = ~@]} })

\* The "walls" switch of the isometric and 3D views
ToggleWalls(i) ==
  /\ view \in {"iso", "three"} /\ Active(i)
  /\ UserEvent(toggleWalls(World, i), i)
  /\ UNCHANGED wheelRun

\* The network view's "labels" switch flips the reactive flag
ToggleLabels(i) ==
  /\ view = "net" /\ comp[i].phase # "new"
  /\ UserEvent([World EXCEPT !.comp[i].showLabels = ~@], i)
  /\ UNCHANGED wheelRun

\* The network view's "signal range" switch
ToggleSignalRange(i) ==
  /\ view = "net" /\ comp[i].phase # "new"
  /\ UserEvent([World EXCEPT !.comp[i].showSignalRange = ~@], i)
  /\ UNCHANGED wheelRun

setViewMode(w, i, mode) == [w EXCEPT !.comp[i].viewMode = mode]

\* The temperature / humidity switch of the isometric and 3D views
SetViewMode(i, mode) ==
  /\ view \in {"iso", "three"} /\ comp[i].phase # "new"
  /\ UserEvent(setViewMode(World, i, mode), i)
  /\ UNCHANGED wheelRun

-----------------------------------------------------------------------------
(* Specifications *)

Budget(events, layouts, faults, frames, insts) ==
  [ events |-> events, layouts |-> layouts, faults |-> faults, frames |-> frames,
    polls |-> MaxPolls, insts |-> insts ]

Laid == [exists |-> TRUE, w |-> 200, h |-> 100]

Fresh ==
  /\ st = EmptyState
  /\ comp = [i \in Inst |-> NewComponent(view)]
  /\ dom = [elements |-> {}, listeners |-> {}, canvas |-> << >>]
  /\ heap = [scenes |-> << >>, renderers |-> << >>]
  /\ timers = {} /\ rafs = {}
  /\ ids = [gen |-> 0, raf |-> 0, timer |-> 0, cam |-> 0]
  /\ initLog = << >>
  /\ wheelRun = [i \in Inst |-> 0]
  /\ script = NotRun
  /\ colorCall = NoCall

\* The page as loaded: no component mounted yet, containers laid out or not
Init ==
  /\ cfg = FLOOR_PLAN_CONFIG
  /\ view \in Views
  /\ cont \in [Inst -> {NoContainer, Laid}]
  /\ budget = Budget(MaxEvents, MaxLayouts, MaxFaults, MaxFrames, MaxInst)
  /\ Fresh

Lifecycle ==
  \/ \E i \in Inst : Activate(i)
  \/ \E t \in timers : Poll(t)
  \/ \E r \in rafs : Frame(r)
  \/ \E i \in Inst, c \in Containers : Layout(i, c)
  \/ \E l \in dom.listeners : Resize(l)

Controls ==
  \/ \E l \in dom.listeners, deltaY \in DeltaYs : Wheel(l, deltaY)
  \/ \E i \in Inst : ZoomIn(i)
  \/ \E i \in Inst : ZoomOut(i)
  \/ \E i \in Inst, level \in Levels : SetZoom(i, level)
  \/ \E i \in Inst : ResetView(i)
  \/ \E i \in Inst : ToggleLabels(i)

Next == Lifecycle \/ Controls

Spec == Init /\ [][Next]_vars

\* The zoom controls on their own: one mounted view of a laid-out container,
\* and a long run of zoom events
ZoomInit ==
  /\ cfg = FLOOR_PLAN_CONFIG
  /\ view \in {"iso", "net"}
  /\ cont = [i \in Inst |-> Laid]
  /\ budget = Budget(MaxZoomEvents, 0, 0, 0, 1)
  /\ Fresh

ZoomNext ==
  \/ \E i \in Inst : Activate(i)
  \/ \E l \in dom.listeners, deltaY \in DeltaYs : Wheel(l, deltaY)
  \/ \E i \in Inst : ZoomIn(i)
  \/ \E i \in Inst : ZoomOut(i)
  \/ \E i \in Inst, level \in Levels : SetZoom(i, level)
  \/ \E i \in Inst : ResetView(i)

ZoomSpec == ZoomInit /\ [][ZoomNext]_vars

\* The lifecycle alone, with every pending poll timer firing eventually
LiveInit ==
  /\ cfg = FLOOR_PLAN_CONFIG
  /\ view \in Views
  /\ cont \in [Inst -> {NoContainer, Laid}]
  /\ budget = Budget(0, MaxLayouts, MaxFaults, MaxFrames, MaxInst)
  /\ Fresh

LiveNext ==
  \/ \E i \in Inst : Activate(i)
  \/ \E t \in timers : Poll(t)
  \/ \E r \in rafs : Frame(r)
  \/ \E i \in Inst, c \in Containers : Layout(i, c)

LiveSpec ==
  /\ LiveInit /\ [][LiveNext]_vars
  /\ \A i \in Inst : WF_vars(\E t \in timers : t.inst = i /\ Poll(t))

\* Configurations: the shipped one and two others with every opening inside its wall
Roomier ==
  [FLOOR_PLAN_CONFIG EXCEPT
     !.apartmentWidth = 10000000, !.apartmentDepth = 7000000,
     !.rooms[1] = Room("study", 8000000, 2000000, 4000000, 3600000),
     !.balconyNotch = [width |-> 1200000, depth |-> 2000000, hasRailing |-> FALSE]]
Compact ==
  [FLOOR_PLAN_CONFIG EXCEPT
     !.apartmentWidth = 9000000, !.apartmentDepth = 6000000,
     !.rooms[1] = Room("study", 7000000, 1700000, 3800000, 3400000),
     !.balconyNotch = [width |-> 800000, depth |-> 1000000, hasRailing |-> TRUE]]
Configs == {FLOOR_PLAN_CONFIG, Roomier, Compact}

\* The network view built from any of the configurations
GeoInit ==
  /\ view = "net"
  /\ cont \in [Inst -> {NoContainer, Laid}]
  /\ budget = Budget(0, MaxLayouts, 0, 0, MaxInst)
  /\ Fresh
  /\ cfg \in Configs

GeoNext ==
  \/ \E i \in Inst : Activate(i)
  \/ \E t \in timers : Poll(t)
  \/ \E i \in Inst, c \in Containers : Layout(i, c)

GeoSpec == GeoInit /\ [][GeoNext]_vars

\* Pan gestures, auto-rotate and frames on a laid-out isometric or network view
PanInit ==
  /\ cfg = FLOOR_PLAN_CONFIG
  /\ view \in {"iso", "net"}
  /\ cont = [i \in Inst |-> Laid]
  /\ budget = Budget(MaxPanEvents, 0, 0, MaxFrames + 1, 1)
  /\ Fresh

PanNext ==
  \/ \E i \in Inst : Activate(i)
  \/ \E r \in rafs : Frame(r)
  \/ \E l \in dom.listeners, pos \in Points : PointerDown(l, pos)
  \/ \E l \in dom.listeners, pos \in Points : PointerMove(l, pos)
  \/ \E l \in dom.listeners : PointerUp(l)
  \/ \E l \in dom.listeners : PointerLeave(l)
  \/ \E i \in Inst : ToggleAutoRotate(i)
  \/ \E i \in Inst : ResetView(i)

PanSpec == PanInit /\ [][PanNext]_vars

\* The network view with one device of the list anywhere: in a room of the plan
\* or in none, at a relative position inside or outside [0, 1]
Rel == {0, 25, 50, 100, 150}
DeviceLists ==
  { << ZIGBEE_DEVICES[1], Device("plug", "router", room, x, z), ZIGBEE_DEVICES[3] >> :
      room \in {"study", "kitchen", "garage"}, x \in Rel, z \in Rel }

DeviceInit ==
  /\ view = "net"
  /\ cont \in [Inst -> {NoContainer, Laid}]
  /\ budget = Budget(0, MaxLayouts, 0, 0, MaxInst)
  /\ Fresh
  /\ cfg \in {[FLOOR_PLAN_CONFIG EXCEPT !.devices = list] : list \in DeviceLists}

DeviceSpec == DeviceInit /\ [][GeoNext]_vars

\* Any view built from any of the configurations
RoomInit ==
  /\ view \in Views
  /\ cont \in [Inst -> {NoContainer, Laid}]
  /\ budget = Budget(0, MaxLayouts, 0, 0, MaxInst)
  /\ Fresh
  /\ cfg \in Configs

RoomSpec == RoomInit /\ [][GeoNext]_vars

\* The walls switch, across hidden containers and reactivations
WallsInit ==
  /\ cfg = FLOOR_PLAN_CONFIG
  /\ view \in {"iso", "three"}
  /\ cont \in [Inst -> {NoContainer, Laid}]
  /\ budget = Budget(MaxToggles, MaxLayouts, 0, 0, MaxInst)
  /\ Fresh

WallsNext ==
  \/ \E i \in Inst : Activate(i)
  \/ \E t \in timers : Poll(t)
  \/ \E i \in Inst, c \in Containers : Layout(i, c)
  \/ \E i \in Inst : ToggleWalls(i)

WallsSpec == WallsInit /\ [][WallsNext]_vars

\* The switches read by the render loop, across reactivations
FlagInit ==
  /\ cfg = FLOOR_PLAN_CONFIG
  /\ view \in Views
  /\ cont = [i \in Inst |-> Laid]
  /\ budget = Budget(MaxToggles, 0, 0, MaxFrames + 1, MaxInst)
  /\ Fresh

FlagNext ==
  \/ \E i \in Inst : Activate(i)
  \/ \E r \in rafs : Frame(r)
  \/ \E i \in Inst : ToggleLabels(i)
  \/ \E i \in Inst : ToggleSignalRange(i)
  \/ \E i \in Inst : ToggleAutoRotate(i)
  \/ \E i \in Inst, mode \in {"temperature", "humidity"} : SetViewMode(i, mode)

FlagSpec == FlagInit /\ [][FlagNext]_vars

-----------------------------------------------------------------------------
(* Properties *)

InRange(z) == z # NaN /\ ~QLt(z, Q(1, 2)) /\ ~QLt(Q(3, 1), z)

C2_WheelDown ==
  \A i \in Inst :
    /\ wheelRun[i] = 1 => comp[i].zoomLevel = Q(9, 10)
    /\ wheelRun[i] = 10 => comp[i].zoomLevel = Q(1, 2)
    /\ wheelRun[i] >= 1 => ~QLt(comp[i].zoomLevel, Q(1, 2))

\* Ten wheel-down events in a row have run since the level was 1.0
C2_Witness == \E i \in Inst : wheelRun[i] = 10 /\ comp[i].zoomLevel = Q(1, 2)

Ready(i) == ~NotReady(cont[i])

\* A step in which waitForContainer ran for instance i: init() or a timer of i firing
Polled(i) ==
  \/ comp[i].phase = "new" /\ comp'[i].phase # "new"
  \/ \E t \in timers : t.inst = i /\ t \notin timers'

\* Every full initialization, completed or not, creates one scene
FullInitRan == Len(heap'.scenes) = Len(heap.scenes) + 1

Live(kind, id) == id # 0 /\ kind[id] = "live"
LiveOnes(kind) == {k \in DOMAIN kind : kind[k] = "live"}

Index(log, name) == CHOOSE k \in DOMAIN log : log[k] = name
Teardown == {"dispose", "clear", "cancel"}

\* C3: a full initialization on a state bag that holds a renderer, a scene or an
\* animation id disposes that renderer, clears that scene and cancels that frame
\* callback, all before the new scene is made; when the initialization completes
\* the bag's renderer and scene are the only live ones and nothing in the bag
\* (room meshes, wall registry) belongs to a cleared scene.
C3_TeardownBeforeInit ==
  [][ (FullInitRan /\ (st.renderer # 0 \/ st.scene # 0 \/ st.animationId # 0)) =>
        /\ st.renderer # 0 => heap'.renderers[st.renderer] = "disposed"
        /\ st.scene # 0 => heap'.scenes[st.scene] = "cleared"
        /\ st.animationId # 0 => \A r \in rafs' : r.id # st.animationId
        /\ \A k \in DOMAIN initLog' :
             initLog'[k] \in Teardown => k < Index(initLog', "scene")
        /\ st'.isInitialized =>
             /\ Live(heap'.renderers, st'.renderer) /\ Live(heap'.scenes, st'.scene)
             /\ LiveOnes(heap'.renderers) = {st'.renderer}
             /\ LiveOnes(heap'.scenes) = {st'.scene}
             /\ \A m \in st'.roomMeshes : m.scene = st'.scene
             /\ \A k \in DOMAIN st'.wallMeshes : st'.wallMeshes[k].scene = st'.scene
    ]_vars

\* A completed re-initialization of a bag that held renderer, scene and frame id
C3_Witness ==
  /\ st.isInitialized
  /\ Len(heap.renderers) = 2 /\ heap.renderers[1] = "disposed"
  /\ heap.scenes[1] = "cleared"
  /\ \E k \in DOMAIN initLog : initLog[k] = "cancel"

\* C4: a waitForContainer call that finds the container missing, or of zero width or
\* zero height, schedules exactly one further call 100 ms later and changes nothing
\* else: nothing is built and isInitialized is not set.
C4_NotReadyOnlyRetries ==
  [][ \A i \in Inst :
        (Polled(i) /\ NotReady(cont[i])) =>
          /\ \E n \in timers' \ timers :
               /\ n.inst = i /\ n.delay = 100
               /\ timers' \ timers = {n}
               /\ Cardinality(timers \ timers') <= 1
          /\ st' = st /\ dom' = dom /\ heap' = heap /\ rafs' = rafs
          /\ initLog' = initLog
          /\ \A k \in Inst : comp'[k].zoomLevel = comp[k].zoomLevel
    ]_vars

\* A poll that found the container not ready has scheduled the next one
C4_Witness ==
  /\ \E t \in timers : t.id >= 2 /\ NotReady(cont[t.inst])
  /\ st = EmptyState

Called(i) == comp[i].phase # "new"
Threw(i) == comp[i].phase = "threw"
Running == st.isInitialized /\ \E r \in rafs : r.id = st.animationId

RECURSIVE Built(_)
Built(log) ==
  IF log = << >> THEN << >>
  ELSE LET rest == Built(Tail(log))
       IN  IF Head(log) \in Teardown THEN rest
           ELSE IF rest # << >> /\ Head(rest) = Head(log) THEN rest
           ELSE <<Head(log)>> \o rest

StatedOrder ==
  << "scene", "camera", "renderer", "lighting", "geometry", "labels", "handlers", "loop" >>
OrbitOrder ==
  << "scene", "camera", "handlers", "renderer", "lighting", "geometry", "labels", "loop" >>

\* C6 as stated: isInitialized is set only after scene, camera, renderer, lighting,
\* geometry, labels, interaction handlers and the render loop, in that order.
C6_StatedOrder == st.isInitialized => Built(initLog) = StatedOrder

\* C6: isInitialized is set only after all eight steps ran; their order is the
\* stated one in the isometric and network views, while the 3D view installs its
\* interaction handlers (OrbitControls) together with the camera, before the renderer.
C6_InitOrder ==
  st.isInitialized =>
    Built(initLog) = IF view = "three" THEN OrbitOrder ELSE StatedOrder

\* A completed initialization of the 3D view
C6_Witness == st.isInitialized /\ view = "three" /\ Len(initLog) = 8

RegisteredLabels(state, elements) ==
  {e \in elements : e.kind = "label" /\ <<e.key, e.gen>> \in state.labelElements}

\* C7: a waitForContainer call that finds the container laid out and the state bag
\* initialized (isInitialized and a renderer) keeps scene, camera object, renderer,
\* room meshes and wall registry, starts no render loop, and does only this: puts
\* the canvas into the container, makes a fresh set of labels there, and resizes
\* the camera and the renderer to the container.
C7_ReattachReuses ==
  [][ \A i \in Inst :
        (Polled(i) /\ Ready(i) /\ st.isInitialized /\ st.renderer # 0) =>
          /\ st'.scene = st.scene /\ st'.renderer = st.renderer
          /\ st'.camera.id = st.camera.id /\ st'.camera.kind = st.camera.kind
          /\ st'.roomMeshes = st.roomMeshes /\ st'.wallMeshes = st.wallMeshes
          /\ st'.deviceMeshes = st.deviceMeshes /\ st'.isInitialized
          /\ rafs' = rafs /\ st'.animationId = st.animationId /\ ids'.raf = ids.raf
          /\ heap' = heap /\ initLog' = initLog /\ dom'.listeners = dom.listeners
          /\ dom'.canvas[st.renderer] = [parent |-> i, w |-> cont[i].w, h |-> cont[i].h]
          /\ st'.labelElements = {<<k, ids.gen + 1>> : k \in LabelKeys(view, cfg)}
          /\ \A e \in RegisteredLabels(st', dom'.elements) : e.parent = i
          /\ Cardinality(RegisteredLabels(st', dom'.elements))
               = Cardinality(LabelKeys(view, cfg))
          /\ st'.camera =
               IF view = "three" THEN [st.camera EXCEPT !.aspect = Q(cont[i].w, cont[i].h)]
               ELSE Frustum(st.camera, QDiv(Q(15, 1), comp[i].zoomLevel), cont[i])
          /\ \A k \in Inst : comp'[k].zoomLevel = comp[k].zoomLevel
    ]_vars

\* A second instance found the state bag initialized and took over the canvas
C7_Witness ==
  /\ st.isInitialized /\ Len(heap.scenes) = 1
  /\ comp[2].phase = "attached"
  /\ dom.canvas[st.renderer].parent = 2
  /\ \A e \in RegisteredLabels(st, dom.elements) : e.gen = 2 /\ e.parent = 2

Shown(e) == e.vis /\ e.display # "none"

\* A step in which the render loop's callback of instance self ran to its end
FrameDone(self) ==
  /\ \E r \in rafs : r.self = self /\ r \notin rafs'
  /\ heap' = heap /\ ids'.raf = ids.raf + 1
  /\ budget'.faults = budget.faults

\* C8: in every view, after a frame's label update a label is shown only if its
\* pixel position is strictly inside the container less a 20 px margin:
\* 20 < x < width - 20 and 20 < y < height - 20, width and height non-zero.
C8_ShownOnlyInside ==
  [][ \A self \in Inst :
        (FrameDone(self) /\ cont[self].exists) =>
          \A e \in RegisteredLabels(st', dom'.elements) :
            Shown(e) =>
              /\ cont[self].w > 0 /\ cont[self].h > 0
              /\ 20 < e.x /\ e.x < cont[self].w - 20
              /\ 20 < e.y /\ e.y < cont[self].h - 20
    ]_vars

-----------------------------------------------------------------------------
(* The walls of the network view that have openings.  from / to and the      *)
(* openings are distances along the wall in apartment coordinates; bottom   *)
(* and top bound the sections between the openings.                          *)

Around(centre, width) == <<centre - Half(width), centre + Half(width)>>

OpenedWall(wall, axis, from, to, openings, segments, sill, header, bottom, top) ==
  [ wall |-> wall, axis |-> axis, from |-> from, to |-> to, openings |-> openings,
    segments |-> segments, sill |-> sill, header |-> header, bottom |-> bottom,
    top |-> top ]

OpenedWalls(c) ==
  LET study == find(c.rooms, "study")
      studyFrontZ == study.z + Half(study.depth) - 500000
      notchStartZ == c.apartmentDepth - c.balconyNotch.depth
  IN  << OpenedWall("study left", "z", 0, studyFrontZ,
                    << Around(studyDoorZ, doorWidth) >>,
                    << "leftWall1", "leftWall2" >>, "", "", 0, netWallHeight),
         OpenedWall("study-living divider", "x", 0, c.apartmentWidth,
                    << Around(door4X, doorWidth), Around(door2X, doorWidth) >>,
                    << "wall3Left", "wall3Mid", "wall3Right" >>, "", "", 0, netWallHeight),
         OpenedWall("north", "x", 0, c.apartmentWidth,
                    << Around(mainDoorX, mainDoorWidth) >>,
                    << "northWall1", "northWall2" >>, "", "", 0, netWallHeight),
         OpenedWall("west", "z", 0, c.apartmentDepth,
                    << Around(w5CenterZ, Scale(westNormalWidth, 9, 10)),
                       Around(w4CenterZ, Scale(westNormalWidth, 1125, 1000)),
                       Around(w3CenterZ, Scale(westNormalWidth, 2, 1)) >>,
                    << "westSection1", "westSection2", "westSection3", "westSection4" >>,
                    "westSill", "westHeader", westSillHeight, westHeaderStart),
         OpenedWall("east upper", "z", 0, studyFrontZ,
                    << Around(bathDoorZ, wall10DoorWidth),
                       Around(kitchenDoorZ, wall10DoorWidth) >>,
                    << "eastWallUpper1", "eastWallUpper2", "eastWallUpper3" >>,
                    "", "", 0, netWallHeight),
         OpenedWall("east lower", "z", 0, notchStartZ,
                    << Around(w1CenterZ, Scale(normalWidth, 23, 10)),
                       Around(w2CenterZ, Scale(normalWidth, 125, 100)) >>,
                    << "section1", "section2", "section3" >>,
                    "sill", "header", sillHeight, headerStart),
         OpenedWall("west notch", "z", notchStartZ, c.apartmentDepth,
                    << Around(c.apartmentDepth - Half(c.balconyNotch.depth),
                              frenchDoorWidth) >>,
                    << "westNotchFrontWall", "westNotchBackWall" >>,
                    "", "westNotchHeader", 0, frenchDoorHeight) >>

\* The registry's meshes of a given name
Named(walls, name) == {walls[k].mesh : k \in {j \in DOMAIN walls : walls[j].mesh.name = name}}

\* Extent of a box along the wall, in apartment coordinates, and its height range
Along(b, axis, c) ==
  IF axis = "x"
  THEN <<b.x - Half(b.w) + Half(c.apartmentWidth), b.x + Half(b.w) + Half(c.apartmentWidth)>>
  ELSE <<b.z - Half(b.d) + Half(c.apartmentDepth), b.z + Half(b.d) + Half(c.apartmentDepth)>>
Upward(b) == <<b.y - Half(b.h), b.y + Half(b.h)>>

\* openings in order, apart from each other and strictly inside the wall
ValidOpenings(d) ==
  LET n == Len(d.openings)
  IN  /\ \A k \in 1..n : d.openings[k][1] < d.openings[k][2]
      /\ d.from < d.openings[1][1] /\ d.openings[n][2] < d.to
      /\ \A k \in 1..(n - 1) : d.openings[k][2] < d.openings[k + 1][1]

\* One mesh per segment name, N+1 of them, and segments and openings alternate
\* from the wall's start to its end, each beginning where the one before ended
Partitions(d, walls, c) ==
  LET n == Len(d.openings)
  IN  /\ Len(d.segments) = n + 1
      /\ \A k \in 1..(n + 1) : Cardinality(Named(walls, d.segments[k])) = 1
      /\ LET seg(k) == Along(Only(Named(walls, d.segments[k])), d.axis, c)
         IN  /\ seg(1)[1] = d.from
             /\ seg(n + 1)[2] = d.to
             /\ \A k \in 1..n : seg(k)[2] = d.openings[k][1]
                             /\ seg(k + 1)[1] = d.openings[k][2]
             /\ \A k \in 1..(n + 1) : seg(k)[1] < seg(k)[2]

\* Every section reaches from bottom to top
SectionsSpan(d, walls, bottom, top) ==
  \A k \in DOMAIN d.segments :
    \A b \in Named(walls, d.segments[k]) : Upward(b) = <<bottom, top>>

\* A strip of the whole wall's length between two heights
Strip(d, walls, c, name, bottom, top) ==
  /\ Cardinality(Named(walls, name)) = 1
  /\ \A b \in Named(walls, name) :
       Along(b, d.axis, c) = <<d.from, d.to>> /\ Upward(b) = <<bottom, top>>

FullHeight(d, walls) ==
  d.sill = "" /\ d.header = "" /\ SectionsSpan(d, walls, 0, netWallHeight)

SillAndHeader(d, walls, c) ==
  /\ d.sill # "" /\ d.header # ""
  /\ Strip(d, walls, c, d.sill, 0, d.bottom)
  /\ Strip(d, walls, c, d.header, d.top, netWallHeight)
  /\ SectionsSpan(d, walls, d.bottom, d.top)

HeaderOnly(d, walls, c) ==
  /\ d.sill = "" /\ d.header # ""
  /\ Strip(d, walls, c, d.header, d.top, netWallHeight)
  /\ SectionsSpan(d, walls, 0, d.top)

NetBuilt == view = "net" /\ st.wallMeshes # << >>

\* C9 as stated: every wall with N openings has N+1 full-height segments, or N+1
\* middle sections with one sill and one header, and segments and openings
\* partition the wall's span.
C9_StatedShapes ==
  NetBuilt =>
    \A k \in DOMAIN OpenedWalls(cfg) :
      LET d == OpenedWalls(cfg)[k]
      IN  ValidOpenings(d) =>
            /\ Partitions(d, st.wallMeshes, cfg)
            /\ FullHeight(d, st.wallMeshes) \/ SillAndHeader(d, st.wallMeshes, cfg)

\* C9: every wall with N openings has N+1 segments that, with the openings,
\* partition the wall's span exactly; the segments are full height, or middle
\* sections between one sill and one header, except on the west notch wall,
\* whose two sections stand on the floor under one header, with no sill.
C9_WallsPartitioned ==
  NetBuilt =>
    \A k \in DOMAIN OpenedWalls(cfg) :
      LET d == OpenedWalls(cfg)[k]
      IN  ValidOpenings(d) =>
            /\ Partitions(d, st.wallMeshes, cfg)
            /\ IF d.wall = "west notch" THEN HeaderOnly(d, st.wallMeshes, cfg)
               ELSE FullHeight(d, st.wallMeshes) \/ SillAndHeader(d, st.wallMeshes, cfg)

\* The network view built from a configuration other than the shipped one,
\* all of whose walls have their openings inside them
C9_Witness ==
  /\ NetBuilt /\ cfg = Roomier
  /\ \A k \in DOMAIN OpenedWalls(cfg) : ValidOpenings(OpenedWalls(cfg)[k])

DocumentedWalls ==
  << <<"leftWall">>, <<"rightWall">>, <<"frontWall">>,
     <<"wall3Left", "wall3Mid", "wall3Right">>, <<"coatWall">>,
     <<"northWall1", "northWall2">>,
     <<"westSill", "westHeader", "westSection1", "westSection2", "westSection3",
       "westSection4">>,
     <<"eastWallUpper1", "eastWallUpper2", "eastWallUpper3">>,
     <<"sill", "header", "section1", "section2", "section3">>,
     <<"southWall">> >>

\* C10: after buildFloorPlan the network view's wallMeshes has ten entries, index
\* 0-2 the room walls (study left, bedroom right, bathroom front), 3 the
\* study-living divider, 4 the coat wall, 5 the north wall, 6 the west wall,
\* 7 the east wall upper, 8 the east wall lower, 9 the south wall.
C10_DocumentedRegistry ==
  NetBuilt =>
    /\ Len(st.wallMeshes) = 10
    /\ \A k \in 1..10 :
         \E j \in DOMAIN DocumentedWalls[k] :
           st.wallMeshes[k].mesh.name = DocumentedWalls[k][j]

-----------------------------------------------------------------------------
(* Rooms: the floor and the walls of each room's group *)

\* The side of the room a wall of the room builder stands on
SideOf(name) ==
  CASE name = "backWall" -> "north"
    [] name = "frontWall" -> "south"
    [] name \in {"leftWall", "leftWall1", "leftWall2"} -> "west"
    [] name = "rightWall" -> "east"

\* The wall lies on that side of the room's rectangle and reaches both its corners
SpansSide(b, side, config, c) ==
  LET rx == config.x - Half(c.apartmentWidth)
      rz == config.z - Half(c.apartmentDepth)
      halfW == Half(config.width)
      halfD == Half(config.depth)
  IN  CASE side = "north" ->
             b.z = rz - halfD /\ b.x - Half(b.w) <= rx - halfW /\ b.x + Half(b.w) >= rx + halfW
        [] side = "south" ->
             b.z = rz + halfD /\ b.x - Half(b.w) <= rx - halfW /\ b.x + Half(b.w) >= rx + halfW
        [] side = "west" ->
             b.x = rx - halfW /\ b.z - Half(b.d) <= rz - halfD /\ b.z + Half(b.d) >= rz + halfD
        [] side = "east" ->
             b.x = rx + halfW /\ b.z - Half(b.d) <= rz - halfD /\ b.z + Half(b.d) >= rz + halfD

OneFloorFourWalls(m) == Len(m.floors) = 1 /\ Len(m.walls) <= 4

\* The room builder shared by the isometric and 3D views omits no side
AllSides(m) == {SideOf(m.walls[k].name) : k \in DOMAIN m.walls} = {"north", "south", "west", "east"}

\* C11 as stated: every room has one floor and at most four walls, and every wall
\* emitted spans its side of the room's rectangle completely.
C11_StatedSides ==
  \A m \in st.roomMeshes :
    /\ OneFloorFourWalls(m)
    /\ \A k \in DOMAIN m.walls :
         SpansSide(m.walls[k], SideOf(m.walls[k].name), find(cfg.rooms, m.id), cfg)

\* C11: every room has one floor and at most four walls.  The shared room
\* builder (isometric, 3D) emits a wall on all four sides, each spanning its side
\* completely; so does every wall of the network view, except the study's left
\* wall, which is two segments around a door ending at the Study-Living divider,
\* and the bedroom's right wall, which stands on the bedroom-living divider line.
C11_RoomWalls ==
  \A m \in st.roomMeshes :
    /\ OneFloorFourWalls(m)
    /\ view # "net" => AllSides(m)
    /\ \A k \in DOMAIN m.walls :
         \/ SpansSide(m.walls[k], SideOf(m.walls[k].name), find(cfg.rooms, m.id), cfg)
         \/ view = "net" /\ m.id = "study" /\ SideOf(m.walls[k].name) = "west"
         \/ view = "net" /\ m.id = "bedroom" /\ SideOf(m.walls[k].name) = "east"

\* The network view built from a configuration other than the shipped one: the
\* bathroom keeps its front wall, the study its left wall in two segments
C11_Witness ==
  /\ view = "net" /\ cfg = Compact /\ st.isInitialized
  /\ \E m \in st.roomMeshes : m.id = "bathroom" /\ Len(m.walls) = 1
  /\ \E m \in st.roomMeshes : m.id = "study" /\ Len(m.walls) = 2

\* C12: every room's floor is centred at (room.x - apartmentWidth/2,
\* room.z - apartmentDepth/2); with width 9.239 and depth 6.665 the study at
\* (7.285, 1.8485) has its floor at (2.6655, -1.484).
C12_FloorCentred ==
  \A m \in st.roomMeshes :
    \A k \in DOMAIN m.floors :
      LET config == find(cfg.rooms, m.id)
      IN  /\ m.floors[k].x = config.x - Half(cfg.apartmentWidth)
          /\ m.floors[k].z = config.z - Half(cfg.apartmentDepth)
          /\ (cfg = FLOOR_PLAN_CONFIG /\ m.id = "study") =>
                m.floors[k].x = 2665500 /\ m.floors[k].z = -1484000

\* The study's floor of the shipped configuration, built by the room builder
C12_Witness ==
  /\ view = "iso" /\ cfg = FLOOR_PLAN_CONFIG
  /\ cfg.apartmentWidth = 9239000 /\ cfg.apartmentDepth = 6665000
  /\ \E m \in st.roomMeshes :
       m.id = "study" /\ m.floors = <<Box("floor", 3908000, 50000, 3697000,
                                          2665500, 25000, -1484000)>>

-----------------------------------------------------------------------------
(* Device markers *)

Placed(d) == \E k \in st.deviceMeshes : k.id = d.id
MarkerOf(d) == CHOOSE k \in st.deviceMeshes : k.id = d.id

\* C13: a device at relative position (0.5, 0.5) in a room of the configuration
\* has its marker at that room's centre, (room.x - centerX, room.z - centerZ).
C13_CentredDevice ==
  \A d \in Range(cfg.devices) :
    (Placed(d) /\ d.x = 50 /\ d.z = 50 /\ has(cfg.rooms, d.room)) =>
      LET room == find(cfg.rooms, d.room)
      IN  /\ MarkerOf(d).position[1] = room.x - Half(cfg.apartmentWidth)
          /\ MarkerOf(d).position[3] = room.z - Half(cfg.apartmentDepth)

\* A router placed at (0.5, 0.5) in the kitchen
C13_Witness ==
  \E d \in Range(cfg.devices) :
    /\ d.id = "plug" /\ d.room = "kitchen" /\ d.x = 50 /\ d.z = 50
    /\ Placed(d) /\ MarkerOf(d).position[2] = 500000

\* C14: a device at a relative position in [0, 1] x [0, 1] in a room of the
\* configuration has its marker inside the room's rectangle.
C14_MarkerInsideRoom ==
  \A d \in Range(cfg.devices) :
    (Placed(d) /\ d.x \in 0..100 /\ d.z \in 0..100 /\ has(cfg.rooms, d.room)) =>
      LET room == find(cfg.rooms, d.room)
      IN  /\ Abs(MarkerOf(d).position[1] - (room.x - Half(cfg.apartmentWidth)))
               <= Half(room.width)
          /\ Abs(MarkerOf(d).position[3] - (room.z - Half(cfg.apartmentDepth)))
               <= Half(room.depth)

\* A router placed on a corner of the relative square, (0, 1), in the study
C14_Witness ==
  \E d \in Range(cfg.devices) :
    /\ d.id = "plug" /\ d.room = "study" /\ d.x = 0 /\ d.z = 100
    /\ Placed(d) /\ MarkerOf(d).position[1] < find(cfg.rooms, "study").x - Half(cfg.apartmentWidth)

\* C16: a device whose room is not in the configuration is skipped: no marker of
\* it is in the scene and nothing is recorded for it, while every other device
\* has its marker.
C16_AbsentRoomSkipped ==
  st.deviceMeshes # {} =>
    \A d \in Range(cfg.devices) : Placed(d) <=> has(cfg.rooms, d.room)

-----------------------------------------------------------------------------
(* Pan gestures and auto-rotate *)

\* C15: in the isometric and network views pointer-up and pointer-leave both end
\* the pan gesture, leaving isPanning false, and a pointer-move while isPanning
\* is false changes neither the pan offset nor the camera's look-at target.
C15_GestureEnds ==
  [][ \A l \in dom.listeners :
        /\ (PointerUp(l) \/ PointerLeave(l)) => ~st'.isPanning
        /\ (~st.isPanning /\ \E pos \in Points : PointerMove(l, pos)) =>
             st'.panOffset = st.panOffset /\ st'.camera = st.camera
    ]_vars

\* A frame of the network view's loop run by instance self
NetFrame(self) == view = "net" /\ \E r \in rafs : r.self = self /\ Frame(r)

\* C18: a frame of the network view with auto-rotate on advances rotationAngle by
\* 0.003, puts the camera on the circle of radius 17.32 at height 10 at the new
\* angle, points it at (panOffset.x, 0, panOffset.z) and leaves panOffset alone;
\* a frame with auto-rotate off changes neither the camera position nor the angle.
C18_AutoRotateFrame ==
  [][ \A self \in Inst :
        NetFrame(self) =>
          /\ st'.panOffset = st.panOffset
          /\ IF comp[self].autoRotate
             THEN /\ comp'[self].rotationAngle = comp[self].rotationAngle + 3000
                  /\ st'.camera.position =
                       OnCircle(17320000, 10000000, comp'[self].rotationAngle)
                  /\ st'.camera.target = st.panOffset
             ELSE /\ comp'[self].rotationAngle = comp[self].rotationAngle
                  /\ st'.camera.position = st.camera.position
    ]_vars

\* Auto-rotate has turned the camera for two frames around a panned target
C18_Witness ==
  /\ view = "net"
  /\ \E i \in Inst : comp[i].autoRotate /\ comp[i].rotationAngle = PiOver4 + 6000
  /\ st.camera.position.on = "circle"
  /\ st.panOffset # Origin /\ st.camera.target = st.panOffset

-----------------------------------------------------------------------------
(* Configurations that lack a room the network view looks up by id *)

Without(c, id) == [c EXCEPT !.rooms = SelectSeq(@, LAMBDA r : r.id # id)]

LookedUp == {"study", "living", "kitchen", "bedroom", "bathroom"}

LookupConfigs ==
  {FLOOR_PLAN_CONFIG} \cup {Without(FLOOR_PLAN_CONFIG, id) : id \in LookedUp}
    \cup {Without(Without(FLOOR_PLAN_CONFIG, "bedroom"), id) : id \in {"study", "bathroom"}}

LookupInit ==
  /\ view = "net"
  /\ cont \in [Inst -> {NoContainer, Laid}]
  /\ budget = Budget(0, MaxLayouts, 0, 0, MaxInst)
  /\ Fresh
  /\ cfg \in LookupConfigs

LookupSpec == LookupInit /\ [][GeoNext]_vars

\* C17: whatever room the configuration lacks, the network view's scene build runs
\* to completion: no call of waitForContainer ends in a thrown initialization
C17_BuildCompletes == \A i \in Inst : ~Threw(i)

-----------------------------------------------------------------------------
(* Labels in the document after any sequence of activations *)

Attached(kind, key) == {e \in dom.elements : e.kind = kind /\ e.key = key}

Ranged == {d \in Range(cfg.devices) : d.type \in {"coordinator", "router"}}

\* C19: at every moment after createLabels first ran, the document holds exactly one
\* label per configured room (isometric, 3D) or one label per device and one signal
\* element per coordinator or router (network), all made by the latest createLabels
\* call and all in one container; before that it holds none
C19_LabelsExact ==
  IF ids.gen = 0 THEN dom.elements = {}
  ELSE /\ \A k \in LabelKeys(view, cfg) : Cardinality(Attached("label", k)) = 1
       /\ \A e \in dom.elements :
             /\ e.gen = ids.gen
             /\ e.key \in LabelKeys(view, cfg)
             /\ e.kind = "label" => <<e.key, e.gen>> \in st.labelElements
             /\ e.kind = "signal" =>
                  /\ view = "net" /\ <<e.key, e.gen>> \in st.signalElements
                  /\ e.key \in {d.id : d \in Ranged}
       /\ view = "net" => \A d \in Ranged : Cardinality(Attached("signal", d.id)) = 1
       /\ \A e1, e2 \in dom.elements : e1.parent = e2.parent

\* One full initialization, then a reattachment into the second container
C19_Witness ==
  /\ Len(heap.scenes) = 1 /\ st.isInitialized
  /\ ids.gen = 2
  /\ \A k \in LabelKeys(view, cfg) : \E e \in Attached("label", k) : e.parent = 2

-----------------------------------------------------------------------------
(* The per-frame label update, run twice *)

labelUpdate(w, self, j, bad) ==
  IF w.view = "net" THEN netUpdateLabels(w, self, j) ELSE updateLabels(w, self, j, bad)

\* C20: in every reachable state, for every projection of the anchors, running the
\* per-frame label update a second time leaves every label where the first run put
\* it, with the same visibility, and a run changes neither the camera, nor the
\* device markers, nor the configuration, nor the container
C20_ProjectionDeterministic ==
  \A self \in Inst, j \in DOMAIN NdcChoices, bad \in BadRooms \cup {0} :
    LET once == labelUpdate(World, self, j, bad)
        twice == labelUpdate([once EXCEPT !.thrown = FALSE], self, j, bad)
    IN  /\ twice.dom.elements = once.dom.elements
        /\ twice.thrown = once.thrown
        /\ once.st.camera = st.camera /\ twice.st.camera = st.camera
        /\ once.st.deviceMeshes = st.deviceMeshes /\ twice.st.deviceMeshes = st.deviceMeshes
        /\ once.st.roomMeshes = st.roomMeshes
        /\ once.cfg = cfg /\ once.cont = cont /\ once.comp = comp

\* Labels placed by an earlier frame, and a projection for which the update moves them
C20_Witness ==
  /\ \E e \in dom.elements : e.x > 0 /\ e.y > 0
  /\ \E self \in Inst, j \in DOMAIN NdcChoices :
        LET once == labelUpdate(World, self, j, 0)
        IN  /\ once.dom.elements # dom.elements
            /\ \E e \in once.dom.elements : e.kind = "label" /\ Shown(e)

-----------------------------------------------------------------------------
(* The screenshot comparison script run on a set of baseline files *)

SeqsUpTo(S, n) == UNION {[1..k -> S] : k \in 0..n}

PageView ==
  <<view, cfg, st, comp, cont, dom, heap, timers, rafs, ids, budget, initLog, wheelRun,
    colorCall>>

CompareAll(files) ==
  /\ script.phase = "idle"
  /\ script' = compareAllStart(files)
  /\ UNCHANGED PageView

CompareFile ==
  /\ script.phase = "comparing" /\ Len(script.results) < Len(script.files)
  /\ script' = compareFile(script)
  /\ UNCHANGED PageView

CompareExit ==
  /\ script.phase = "comparing" /\ Len(script.results) = Len(script.files)
  /\ script' = compareAllExit(script)
  /\ UNCHANGED PageView

CompareInit ==
  /\ cfg = FLOOR_PLAN_CONFIG
  /\ view = "iso"
  /\ cont = [i \in Inst |-> NoContainer]
  /\ budget = Budget(0, 0, 0, 0, 0)
  /\ Fresh

CompareNext ==
  \/ \E files \in SeqsUpTo(Shots, MaxShots) : CompareAll(files)
  \/ CompareFile
  \/ CompareExit

CompareSpec == CompareInit /\ [][CompareNext]_vars

Matches(shot) ==
  /\ shot.current
  /\ shot.width = baselineWidth /\ shot.height = baselineHeight
  /\ shot.numDiffPixels * 1000 < baselineWidth * baselineHeight

\* C21: the comparison exits with status 0 and "All screenshots match baseline!"
\* only if every baseline file has a current file of the same dimensions that
\* differs in less than 0.1% of the pixels
C21_SuccessOnlyIfAllMatch ==
  (script.phase = "exited" /\ script.status = 0) =>
    \A k \in DOMAIN script.files : Matches(script.files[k])

-----------------------------------------------------------------------------
(* The colour utilities called on room records and values *)

Temperatures == {170, 180, 200, 220, 230, 240, 260, 280, 300, 320, 330}
Humidities == {290, 300, 350, 400, 500, 600, 700, 775, 850, 900}

Metrics(values) == {Number(v) : v \in values} \cup {Null, Undefined}

RoomRecords ==
  {RoomData(FALSE, Undefined, Undefined)}
    \cup {RoomData(TRUE, t, h) : t \in Metrics(Temperatures), h \in Metrics(Humidities)}

ViewFrame ==
  <<view, cfg, st, comp, cont, dom, heap, timers, rafs, ids, budget, initLog, wheelRun,
    script>>

GetRoomColor(room, viewMode) ==
  /\ colorCall' = [NoCall EXCEPT !.fn = "getRoomColor", !.room = room,
                                 !.viewMode = viewMode,
                                 !.result = getRoomColor(room, viewMode, TEMP_COLORS,
                                                         HUMIDITY_COLORS)]
  /\ UNCHANGED ViewFrame

InterpolateColor(value, scale) ==
  /\ colorCall' = [NoCall EXCEPT !.fn = "interpolateColor", !.value = value,
                                 !.scale = scale,
                                 !.result = interpolateColor(value, scale)]
  /\ UNCHANGED ViewFrame

ColorNext ==
  \/ \E room \in RoomRecords, viewMode \in {"temperature", "humidity"} :
        GetRoomColor(room, viewMode)
  \/ \E value \in Temperatures : InterpolateColor(value, TEMP_COLORS)
  \/ \E value \in Humidities : InterpolateColor(value, HUMIDITY_COLORS)

ColorSpec == CompareInit /\ [][ColorNext]_vars

\* The value and scale interpolateColor was reached with, if it was
Interpolated ==
  IF colorCall.fn = "interpolateColor"
  THEN [reached |-> TRUE, value |-> colorCall.value, scale |-> colorCall.scale]
  ELSE LET temp == colorCall.viewMode = "temperature"
           metric == IF temp THEN colorCall.room.temperature ELSE colorCall.room.humidity
       IN  [reached |-> colorCall.fn = "getRoomColor" /\ colorCall.room.exists
                          /\ metric.is = "number",
            value |-> metric.v,
            scale |-> IF temp THEN TEMP_COLORS ELSE HUMIDITY_COLORS]

\* C22: getRoomColor returns 0xE0E0E0 when the room is missing or the metric of the
\* view mode is null or undefined; interpolateColor returns the first stop's colour
\* at or below the first stop, the last stop's colour at or above the last stop,
\* and a stop's colour when the value is that stop's value
C22_ColorFallbacks ==
  /\ (colorCall.fn = "getRoomColor" /\ ~Interpolated.reached) =>
       colorCall.result = 14737632
  /\ Interpolated.reached =>
       LET value == Interpolated.value
           scale == Interpolated.scale
       IN  /\ value <= scale[1].value => colorCall.result = scale[1].color
           /\ value >= scale[Len(scale)].value =>
                colorCall.result = scale[Len(scale)].color
           /\ \A k \in DOMAIN scale :
                value = scale[k].value => colorCall.result = scale[k].color

\* getRoomColor on a room whose humidity is null and whose temperature is the third
\* stop's value, in temperature mode
C22_Witness ==
  /\ colorCall.fn = "getRoomColor" /\ colorCall.viewMode = "temperature"
  /\ colorCall.room = RoomData(TRUE, Number(240), Null)
  /\ colorCall.result = 8505220

-----------------------------------------------------------------------------
(* The orthographic frustum against the zoom level *)

\* p - q, over the common denominator when the two already share it
Extent(p, q) == IF p[2] = q[2] THEN Q(p[1] - q[1], p[2]) ELSE QSub(p, q)

FrustumFits(i) ==
  /\ Extent(st.camera.top, st.camera.bottom) = QDiv(Q(15, 1), comp[i].zoomLevel)
  /\ Extent(st.camera.right, st.camera.left) =
       QMul(Extent(st.camera.top, st.camera.bottom), Q(cont[i].w, cont[i].h))

\* C23: in the isometric and network views, once the view is initialized, the
\* frustum height top - bottom is 15 / zoomLevel of the attached instance and the
\* frustum width is that height times the container's aspect ratio
C23_FrustumFollowsZoom ==
  (view \in {"iso", "net"} /\ st.isInitialized) =>
    \A i \in Inst : comp[i].phase = "attached" => FrustumFits(i)

-----------------------------------------------------------------------------
(* The coat-hanging wall against the study-living divider *)

\* C24: the coat-hanging wall starts at the north wall (z = 0) and its length is 30%
\* of the distance from the north wall to the study-living divider (wall 3) where
\* buildFloorPlan puts that divider
C24_CoatWallLength ==
  (NetBuilt /\ Named(st.wallMeshes, "coatWall") # {}) =>
    \A coat \in Named(st.wallMeshes, "coatWall"), divider \in Named(st.wallMeshes, "wall3Left") :
      /\ Along(coat, "z", cfg)[1] = 0
      /\ coat.d = Scale(divider.z + Half(cfg.apartmentDepth), 30, 100)

-----------------------------------------------------------------------------
(* Several polling chains on one persistent state *)

\* init() of every instance finds its container without size: each starts a chain
ChainInit ==
  /\ cfg = FLOOR_PLAN_CONFIG
  /\ view \in Views
  /\ cont \in [Inst -> {NoContainer, [exists |-> TRUE, w |-> 0, h |-> 100]}]
  /\ budget = Budget(0, MaxLayouts + 1, MaxFaults, MaxFrames, MaxInst)
  /\ Fresh

ChainNext ==
  \/ \E i \in Inst : Activate(i)
  \/ \E t \in timers : Poll(t)
  \/ \E r \in rafs : Frame(r)
  \/ \E i \in Inst, c \in Containers : Layout(i, c)

ChainSpec == ChainInit /\ [][ChainNext]_vars

-----------------------------------------------------------------------------
(* Wall segments of the shipped floor plan *)

\* The three dimensions of every registered wall mesh are strictly positive
PositiveSegments(walls) ==
  \A k \in DOMAIN walls :
    walls[k].mesh.w > 0 /\ walls[k].mesh.h > 0 /\ walls[k].mesh.d > 0

\* C26: with the shipped configuration every wall segment built by the network
\* view's buildFloorPlan and createRoom has strictly positive length, no opening
\* overlaps another on the same wall and none extends beyond its host wall.
C26_PositiveSegments ==
  (NetBuilt /\ cfg = FLOOR_PLAN_CONFIG) =>
    /\ PositiveSegments(st.wallMeshes)
    /\ \A k \in DOMAIN OpenedWalls(cfg) :
         /\ ValidOpenings(OpenedWalls(cfg)[k])
         /\ Partitions(OpenedWalls(cfg)[k], st.wallMeshes, cfg)

C26_Witness ==
  /\ NetBuilt /\ cfg = FLOOR_PLAN_CONFIG
  /\ Named(st.wallMeshes, "northWall1") # {}
  /\ Named(st.wallMeshes, "wall3Mid") # {}
  /\ Named(st.wallMeshes, "leftWall2") # {}

-----------------------------------------------------------------------------
(* Network view: panning and auto-rotate *)

\* C27: in the network view no pointer-move that occurs while autoRotate is true
\* changes panOffset, whatever pointer-downs, pointer-ups and toggleAutoRotate
\* calls came before it.
C27_NoPanWhileRotating ==
  [][ \A l \in dom.listeners, pos \in Points :
        (PointerMove(l, pos) /\ view = "net" /\ comp[l.owner].autoRotate) =>
          st'.panOffset = st.panOffset
    ]_vars

-----------------------------------------------------------------------------
(* The walls switch *)

\* C28: in every state after initialization every mesh in the wall registry has
\* its visible flag equal to the active component's wallsVisible flag, after any
\* sequence of toggleWalls calls and reactivations through a fresh instance.
C28_WallsFollowFlag ==
  st.isInitialized =>
    \A i \in Inst :
      Active(i) => \A k \in DOMAIN st.wallMeshes : st.wallMeshes[k].visible = comp[i].wallsVisible

-----------------------------------------------------------------------------
(* Reactive flags read by the render loop *)

\* The instance mounted last went through the reattach path of an earlier one's state
Reactivated(i) ==
  /\ Active(i) /\ comp[i].phase = "attached"
  /\ \E k \in Inst : k < i /\ comp[k].phase = "attached"

\* What a frame shows, given the flags of instance i before it
ShowsFlagsOf(i) ==
  /\ view = "net" =>
       /\ \A e \in dom'.elements :
            (e.parent = i /\ <<e.key, e.gen>> \in st.labelElements) =>
              e.display = IF e.kind = "label"
                          THEN (IF comp[i].showLabels THEN "flex" ELSE "none")
                          ELSE (IF comp[i].showSignalRange THEN "block" ELSE "none")
       /\ IF comp[i].autoRotate
          THEN /\ comp'[i].rotationAngle = comp[i].rotationAngle + rotationStep
               /\ st'.camera.position = OnCircle(radius, height, comp'[i].rotationAngle)
          ELSE st'.camera.position = st.camera.position
  /\ view = "iso" => st'.floorMode = comp[i].viewMode

\* C29: after a reactivation through a fresh instance that reuses the initialized
\* persistent state, every rendered frame shows the active instance's showLabels,
\* showSignalRange and autoRotate (network) or viewMode (isometric) as they are
\* when the frame runs.
C29_FrameReadsActiveFlags ==
  [][ \A r \in rafs, i \in Inst : (Frame(r) /\ Reactivated(i)) => ShowsFlagsOf(i) ]_vars

-----------------------------------------------------------------------------
(* Network view: direction letters on the outer walls *)

Letters == {"N", "S", "E", "W"}

\* The sprite is on the side of the building where the compass label stands
SameSide(sprite, compass) ==
  IF compass.x # 0 THEN sprite.x * Sgn(compass.x) > 0 ELSE sprite.z * Sgn(compass.z) > 0

\* C30: a wall that addWallNumbers labels with a direction letter D lies on the
\* side of the building where buildFloorPlan puts the compass sprite for D.
C30_LettersMatchCompass ==
  NetBuilt =>
    \A k \in DOMAIN st.wallNumberSprites :
      st.wallNumberSprites[k].label \in Letters =>
        \A compass \in compassLabels(cfg) :
          compass.label = st.wallNumberSprites[k].label =>
            SameSide(st.wallNumberSprites[k], compass)

====
